---- MODULE Spec2Model ----
(***************************************************************************)
(* A model of the LDAP interrogation engine of adgo (package connect):     *)
(*   - ldapClient.StreamSearch / executeSearch (the paged streamer),       *)
(*   - ResilientClient.Search / StreamSearch (the retry wrapper),          *)
(*   - ConnPool.Get / Put / Close and PoolingClient.StreamSearch.          *)
(* Goroutines are processes with a program counter; a Go select whose      *)
(* cases are ready together is a nondeterministic choice among them.       *)
(***************************************************************************)
EXTENDS Integers, Sequences, FiniteSets, TLC

\* ------------------------------------------------------------------ bounds
\* Largest rc.retryCfg.MaxAttempts tried.
MaxAttempts == 2
\* Largest rc.retryCfg.MaxAttempts tried with ResilientClient.Search alone.
MaxSearchAttempts == 3
\* Number of entries the directory holds when the wrapper is in use.
RcMaxEntries == 2
\* Number of goroutines using the connection pool.
NumProcs == 2
\* Largest PoolConfig.MaxConns tried.
MaxConns == 2
\* Number of entries a pooled search returns (at most).
PsMaxEntries == 1
\* Number of entries the directory holds for the filter (at most).
MaxEntries == 3
\* Page size of the paging control (analyze.DefaultPagingSize, scaled down).
PageSize == 2
\* Capacity of the entry channels (100 in the source, scaled down).
ChanCap == 1
\* Number of Close calls on a session, and of reconnects, followed.
MaxCloses == 2
\* Largest attempt number a backoff delay is computed for.
MaxBackoffAttempt == 4
\* Largest configured size limit tried.
MaxSizeLimit == 8
\* Number of entries on the channel a printer reads.
MaxStream == 2

\* ------------------------------------------------------------ error values
\* An error is a record: its kind, the text of the innermost cause, the
\* attempt count a retry wrapper recorded (0 when none), and whether its
\* dynamic type is a net.Error reporting Temporary().
NoErr == [kind |-> "nil", text |-> "", attempts |-> 0, temporary |-> FALSE]

\* ctx.Err() of a cancelled context.
CtxErr ==
    [kind |-> "ctx", text |-> "context canceled", attempts |-> 0,
     temporary |-> FALSE]

\* fmt.Errorf("ldap search failed: %w", err): the cause's text is kept, the
\* wrapper's dynamic type is not a net.Error.
SearchFailed(t) ==
    [kind |-> "search", text |-> t, attempts |-> 0, temporary |-> FALSE]

\* fmt.Errorf("after %d attempts: %w", MaxAttempts, lastErr).
AfterAttempts(n, e) ==
    [kind |-> "after", text |-> e.text, attempts |-> n, temporary |-> FALSE]

\* fmt.Errorf("connection pool is closed") of ConnPool.Get.
PoolClosedErr ==
    [kind |-> "pool", text |-> "connection pool is closed", attempts |-> 0,
     temporary |-> FALSE]

\* fmt.Errorf("creating new connection: %w", err) of ConnPool.Get.
FactoryErr ==
    [kind |-> "factory", text |-> "creating new connection", attempts |-> 0,
     temporary |-> FALSE]

\* The error of ldap.Conn.Close when closing the network connection fails.
ConnCloseErr ==
    [kind |-> "close", text |-> "close: connection error", attempts |-> 0,
     temporary |-> FALSE]

\* An attempt the wrapper left while it was still running (history only).
Unfinished ==
    [kind |-> "running", text |-> "", attempts |-> 0, temporary |-> FALSE]

\* Representative error texts a round-trip to the DC can fail with.
SrvErrTexts == {"i/o timeout", "connection reset by peer",
                "invalid credentials"}

\* The patterns of the classifiers that occur in a (lowercased) error text.
Patterns(text) ==
    CASE text = "i/o timeout" -> {"timeout", "i/o timeout"}
      [] text = "connection reset by peer" -> {"connection reset"}
      [] text = "broken pipe" -> {"broken pipe"}
      [] OTHER -> {}

retryablePatterns ==
    {"connection reset", "connection refused", "timeout", "i/o timeout",
     "network is unreachable", "no route to host", "temporary failure",
     "ldap server down", "server busy", "unavailable"}

connectionPatterns ==
    {"broken pipe", "connection reset", "use of closed network connection",
     "ldap server down", "connection lost"}

IsRetryableError(err) ==
    err # NoErr /\ Patterns(err.text) \cap retryablePatterns # {}

isTemporaryError(err) ==
    err # NoErr /\ err.temporary

isConnectionError(err) ==
    err # NoErr /\ Patterns(err.text) \cap connectionPatterns # {}

\* ------------------------------------------------------------------- state
VARIABLES
    \* -- ldapClient and one run of executeSearch
    supportPaging,   \* ldapClient.supportPaging
    srvTotal,        \* number of entries the DC holds for the filter
    handler,         \* "stream" (StreamSearch) or "collect" (Search)
    clientClosed,    \* ldapClient.Close was called on the connection
    ctxDone,         \* the caller's context is cancelled
    attemptCancelled,\* cancel() of the wrapper's sub-context was called
    cancelAt,        \* snapshot taken when the caller cancelled
    pc,              \* position of the search worker
    cookie,          \* pagingControl.Cookie of searchReq (0 = empty)
    page,            \* result.Entries of the current response
    idx,             \* index of the entry in hand in the handler's loop
    respCtrl,        \* the response carries a paging control
    respCookie,      \* its cookie (0 = empty)
    retErr,          \* error returned by executeSearch
    collected,       \* entries accumulated by ldapClient.Search
    entriesChan,     \* buffered entries of entriesChan
    entriesClosed,   \* entriesChan is closed
    errChan,         \* buffered values of errChan (capacity 1)
    errClosed,       \* errChan is closed
    errSends,        \* number of values ever sent on errChan
    deferred,        \* deferred calls of the worker not yet run
    \* -- the consumer (RunQuery: range over entries, then read the error)
    conPc,
    received,
    conErr,
    \* -- history of the run
    returned,        \* concatenation of the pages the DC returned
    requests,        \* the search requests sent, in order
    abandons,        \* results of the abandon requests issued
    placed,          \* number of entries ever placed on entriesChan
    \* -- ResilientClient and the goroutine of its StreamSearch
    rcMode,          \* "search" or "stream": the operation the caller invoked
    maxAttempts,     \* rc.retryCfg.MaxAttempts
    onRetrySet,      \* rc.onRetry # nil
    onFailureSet,    \* rc.onFailure # nil
    rcPc,            \* position of the wrapper
    attempt,         \* loop variable attempt
    lastErr,         \* lastErr
    inHand,          \* entry received from innerEntries, being forwarded
    outChan,         \* buffered entries of the wrapper's entriesChan
    outClosed,       \* the wrapper's entriesChan is closed
    outErrChan,      \* buffered values of the wrapper's errChan
    outErrClosed,    \* the wrapper's errChan is closed
    rcDeferred,      \* deferred calls of the wrapper not yet run
    rcResult,        \* what ResilientClient.Search returned
    \* -- the caller of the wrapper's StreamSearch
    callerPc,
    callerReceived,
    callerErr,
    \* -- history of the wrapper
    invoked,         \* number of calls of the underlying client
    sleeps,          \* number of backoff sleeps completed
    reconnects,      \* number of reconnect attempts
    attemptErrs,     \* outcome of each attempt when the wrapper left it
    onRetryCalls,    \* arguments of every retry callback invocation
    onFailureCalls,  \* arguments of every failure callback invocation
    outErrSent,      \* every value sent on the wrapper's errChan
    \* -- ConnPool
    maxSize,         \* p.maxSize (= capacity of p.conns)
    conns,           \* number of idle connections buffered in p.conns
    connsClosed,     \* p.conns is closed
    closed,          \* p.closed (atomic flag)
    connCount,       \* p.connCount (atomic counter)
    open,            \* number of connections created and not yet Close()d
    panic,           \* the Go panic that ended the program, or "none"
    \* -- the goroutines using the pool
    ppc,             \* position of each goroutine
    cur,             \* connections each goroutine has in hand (0 = nil)
    mode,            \* "raw": Get/Put called directly; "stream": inside
                     \* PoolingClient.StreamSearch
    \* -- the channels of the PoolingClient.StreamSearch in progress
    psPending,       \* entries searchWithConn returned, not yet pushed
    psChan,          \* number of entries buffered in its entriesChan
    psEntClosed,     \* its entries channel is closed
    psErrChan,       \* values buffered in its errChan
    psErrClosed,     \* its errChan is closed
    psDeferred,      \* deferred calls of its goroutine not yet run
    psEnded,         \* the search has ended (nothing of it is running)
    \* -- history of the pool
    closeReturned,   \* a Close that closed the pool has returned
    drained,         \* number of idle connections Close closed
    lateGet,         \* what a Get called after that did: "none" called,
                     \* "failed" at the closed check, "passed" it
    putIntoClosed,   \* a Put placed a connection while p.closed was set
    \* -- history of the session
    sessCloses,      \* the Close calls on the session: was the connection
                     \* closed already, and the error returned
    \* -- a call of a function that keeps no state
    fn,              \* the function called, or "none"
    arg,             \* its arguments
    out,             \* its result, once it has returned
    printed          \* what StreamPrint of a printer ended with, once it did

cfgVars == <<supportPaging, srvTotal, handler>>
ctxVars == <<ctxDone, attemptCancelled, cancelAt>>
loopVars == <<cookie, page, idx, respCtrl, respCookie>>
entVars == <<entriesChan, entriesClosed>>
errVars == <<errChan, errClosed, errSends>>
conVars == <<conPc, received, conErr>>
histVars == <<returned, requests, abandons, placed>>

streamVars == <<cfgVars, clientClosed, ctxVars, pc, loopVars, retErr, collected,
                entVars, errVars, deferred, conVars, histVars>>

rcCfgVars == <<rcMode, maxAttempts, onRetrySet, onFailureSet>>
outVars == <<outChan, outClosed, outErrChan, outErrClosed, outErrSent>>
callerVars == <<callerPc, callerReceived, callerErr>>
rcHistVars == <<invoked, sleeps, reconnects, attemptErrs, onRetryCalls,
                onFailureCalls>>

rcVars == <<rcCfgVars, rcPc, attempt, lastErr, inHand, outVars, rcDeferred,
            rcResult, callerVars, rcHistVars>>

poolCoreVars == <<maxSize, conns, connsClosed, closed, connCount, open, panic>>
procVars == <<ppc, cur, mode>>
psVars == <<psPending, psChan, psEntClosed, psErrChan, psErrClosed, psDeferred,
            psEnded>>
poolHistVars == <<closeReturned, drained, lateGet, putIntoClosed>>

poolVars == <<poolCoreVars, procVars, psVars, poolHistVars>>

\* What no search, wrapper or pool operation touches.
callVars == <<fn, arg, out, printed>>
otherVars == <<sessCloses, callVars>>

nonStreamVars == <<rcVars, poolVars, otherVars>>

vars == <<streamVars, rcVars, poolVars, otherVars>>

\* No function call is followed.
NoCall == fn = "none" /\ arg = <<>> /\ out = <<>> /\ printed = <<>>

NoCancel == [pc |-> "none", placed |-> 0, requests |-> 0]

\* ------------------------------------------------------------- the server
Min(a, b) == IF a < b THEN a ELSE b

\* Entries i..j of the result set, in directory order.
Range(i, j) == [k \in 1..(IF j >= i THEN j - i + 1 ELSE 0) |-> i + k - 1]

\* One page of a paged search resumed at cookie c (c entries were returned).
PageOf(c) == Range(c + 1, Min(c + PageSize, srvTotal))

\* The cookie of that response: empty (0) on the last page.
NextCookie(c) == IF c + PageSize < srvTotal THEN c + PageSize ELSE 0

\* The request executeSearch builds and sends: size limit 0 and time limit
\* 0 whatever c.config.SizeLimit is, the paging control (with the cookie of
\* the page asked for) only when the server supports paging.
executeSearchRequest(sizeLimit, paging, ck) ==
    [sizeLimit |-> 0, timeLimit |-> 0, paging |-> paging,
     cookie |-> IF paging THEN ck ELSE 0]

\* The request searchWithConn builds: the size limit of the configuration
\* when it is positive, time limit 0, always the paging control.
searchWithConnRequest(sizeLimit, ck) ==
    [sizeLimit |-> IF sizeLimit > 0 THEN sizeLimit ELSE 0, timeLimit |-> 0,
     paging |-> TRUE, cookie |-> ck]

\* Errors of a round-trip: on a closed connection the library refuses it.
RoundTripErrTexts ==
    IF clientClosed THEN {"ldap: connection closed"} ELSE SrvErrTexts

\* What the search of abandonPaging returns: nil or an error.
AbandonResults ==
    IF clientClosed THEN {"ldap: connection closed"}
                    ELSE {"nil", "unwilling to perform"}

\* ctx.Done() of the context the worker runs under.
InnerCtxDone == ctxDone \/ attemptCancelled

\* Fault: a worker whose defer statements are written in the other order.
WorkerDefersReversed == <<"closeErr", "closeEntries">>

\* The deferred calls of the StreamSearch goroutine, in the order the defer
\* statements are executed: close(entriesChan), then close(errChan).
WorkerDefers == <<"closeEntries", "closeErr">>

\* Go runs deferred calls last-in-first-out: the next one to run.
NextDeferred(stack) == stack[Len(stack)]

\* The stack after that call has run.
PopDeferred(stack) == SubSeq(stack, 1, Len(stack) - 1)

\* ---------------------------------------------------------------- Init
\* A fresh run of executeSearch with fresh channels.
FreshSearch ==
    /\ pc = "check"
    /\ cookie = 0
    /\ page = <<>>
    /\ idx = 1
    /\ respCtrl = FALSE
    /\ respCookie = 0
    /\ retErr = NoErr
    /\ collected = <<>>
    /\ entriesChan = <<>>
    /\ entriesClosed = FALSE
    /\ errChan = <<>>
    /\ errClosed = FALSE
    /\ errSends = 0
    /\ deferred = WorkerDefers
    /\ returned = <<>>
    /\ requests = <<>>
    /\ abandons = <<>>
    /\ placed = 0

\* The same, as the effect of a call of the underlying client.
StartSearch ==
    /\ pc' = "check"
    /\ cookie' = 0
    /\ page' = <<>>
    /\ idx' = 1
    /\ respCtrl' = FALSE
    /\ respCookie' = 0
    /\ retErr' = NoErr
    /\ collected' = <<>>
    /\ entriesChan' = <<>>
    /\ entriesClosed' = FALSE
    /\ errChan' = <<>>
    /\ errClosed' = FALSE
    /\ errSends' = 0
    /\ deferred' = WorkerDefers
    /\ returned' = <<>>
    /\ requests' = <<>>
    /\ abandons' = <<>>
    /\ placed' = 0

StreamInit ==
    /\ supportPaging \in BOOLEAN
    /\ srvTotal \in 0..MaxEntries
    /\ handler \in {"stream", "collect"}
    /\ clientClosed = FALSE
    /\ ctxDone = FALSE
    /\ attemptCancelled = FALSE
    /\ cancelAt = NoCancel
    /\ FreshSearch
    /\ conPc = "range"
    /\ received = <<>>
    /\ conErr = NoErr

\* No resilience wrapper is in use.
RcIdle ==
    /\ sessCloses = <<>>
    /\ rcMode = "none"
    /\ maxAttempts = 0
    /\ onRetrySet = FALSE
    /\ onFailureSet = FALSE
    /\ rcPc = "idle"
    /\ attempt = 0
    /\ lastErr = NoErr
    /\ inHand = 0
    /\ outChan = <<>>
    /\ outClosed = FALSE
    /\ outErrChan = <<>>
    /\ outErrClosed = FALSE
    /\ outErrSent = <<>>
    /\ rcDeferred = <<>>
    /\ rcResult = [entries |-> <<>>, err |-> NoErr]
    /\ callerPc = "idle"
    /\ callerReceived = <<>>
    /\ callerErr = NoErr
    /\ invoked = 0
    /\ sleeps = 0
    /\ reconnects = 0
    /\ attemptErrs = <<>>
    /\ onRetryCalls = <<>>
    /\ onFailureCalls = <<>>

\* No pool is in use.
PoolIdle ==
    /\ maxSize = 0
    /\ conns = 0
    /\ connsClosed = FALSE
    /\ closed = FALSE
    /\ connCount = 0
    /\ open = 0
    /\ panic = "none"
    /\ ppc = <<>>
    /\ cur = <<>>
    /\ mode = <<>>
    /\ psPending = 0
    /\ psChan = 0
    /\ psEntClosed = FALSE
    /\ psErrChan = <<>>
    /\ psErrClosed = FALSE
    /\ psDeferred = <<>>
    /\ psEnded = FALSE
    /\ closeReturned = FALSE
    /\ drained = 0
    /\ lateGet = "none"
    /\ putIntoClosed = FALSE

Init == StreamInit /\ RcIdle /\ PoolIdle /\ NoCall

\* Fault: an abandon request sent also when no paging control is in use.
AbandonAlways ==
    /\ cookie' = 0
    /\ \E r \in AbandonResults : abandons' = Append(abandons, r)

\* ----------------------------------------------- ldapClient.executeSearch
\* abandonPaging: reset the control's cookie and send the abandon search
\* (base object, the control with its empty cookie); the search succeeds or
\* fails, and its error is dropped by the callers
\* (_ = c.abandonPaging(searchReq)).
AbandonIfPaging ==
    IF supportPaging
      THEN /\ cookie' = 0
           /\ \E r \in AbandonResults : abandons' = Append(abandons, r)
      ELSE UNCHANGED <<cookie, abandons>>

\* Fault: an executeSearch without the select on ctx.Done() before the
\* round-trip.
CheckCancelIgnored ==
    /\ pc = "check"
    /\ pc' = "search"
    /\ UNCHANGED <<nonStreamVars, cfgVars, clientClosed, ctxVars, cookie, abandons,
                   retErr, page, idx, respCtrl, respCookie, collected, entVars,
                   errVars, deferred, conVars, returned, requests, placed>>

\* The select at the top of the loop: ctx.Done() wins whenever it is ready.
CheckCancel ==
    /\ pc = "check"
    /\ IF InnerCtxDone
         THEN /\ AbandonIfPaging
              /\ retErr' = CtxErr
              /\ pc' = "ret"
         ELSE /\ pc' = "search"
              /\ UNCHANGED <<cookie, abandons, retErr>>
    /\ UNCHANGED <<nonStreamVars, cfgVars, clientClosed, ctxVars, page, idx, respCtrl,
                   respCookie, collected, entVars, errVars, deferred, conVars,
                   returned, requests, placed>>

\* Fault: a failed round-trip that returns without abandoning.
SearchFailsNoAbandon ==
    /\ pc = "search"
    /\ requests' = Append(requests, executeSearchRequest(0, supportPaging, cookie))
    /\ \E t \in RoundTripErrTexts : retErr' = SearchFailed(t)
    /\ pc' = "ret"
    /\ UNCHANGED <<nonStreamVars, cfgVars, clientClosed, ctxVars, page, idx, respCtrl,
                   respCookie, collected, entVars, errVars, deferred, conVars,
                   returned, placed, cookie, abandons>>

\* c.conn.Search(searchReq) fails: abandon, return the wrapped error.
SearchFails ==
    /\ pc = "search"
    /\ requests' = Append(requests, executeSearchRequest(0, supportPaging, cookie))
    /\ \E t \in RoundTripErrTexts : retErr' = SearchFailed(t)
    /\ AbandonIfPaging
    /\ pc' = "ret"
    /\ UNCHANGED <<nonStreamVars, cfgVars, clientClosed, ctxVars, page, idx, respCtrl,
                   respCookie, collected, entVars, errVars, deferred, conVars,
                   returned, placed>>

\* c.conn.Search(searchReq) succeeds: one page (or the whole result when no
\* paging control was attached); the handler starts on its first entry.
SearchSucceeds ==
    /\ pc = "search"
    /\ ~clientClosed
    /\ requests' = Append(requests, executeSearchRequest(0, supportPaging, cookie))
    /\ page' = IF supportPaging THEN PageOf(cookie) ELSE Range(1, srvTotal)
    /\ returned' = returned \o page'
    /\ idx' = 1
    /\ \E ctrl \in BOOLEAN :
         /\ respCtrl' = (supportPaging /\ ctrl)
         /\ respCookie' = IF respCtrl' THEN NextCookie(cookie) ELSE 0
    /\ pc' = IF handler = "stream" /\ page' # <<>> THEN "push" ELSE "handled"
    /\ collected' = IF handler = "collect" THEN collected \o page'
                                            ELSE collected
    /\ UNCHANGED <<nonStreamVars, cfgVars, clientClosed, ctxVars, cookie, retErr, entVars,
                   errVars, deferred, conVars, abandons, placed>>

\* Fault: a handler that drops the entry instead of waiting when the
\* channel is full.
PushEntryDropsWhenFull ==
    /\ pc = "push"
    /\ IF Len(entriesChan) < ChanCap
         THEN /\ entriesChan' = Append(entriesChan, page[idx])
              /\ placed' = placed + 1
         ELSE UNCHANGED <<entriesChan, placed>>
    /\ IF idx = Len(page)
         THEN pc' = "handled" /\ idx' = idx
         ELSE pc' = "push" /\ idx' = idx + 1
    /\ UNCHANGED <<nonStreamVars, cfgVars, clientClosed, ctxVars, cookie, page, respCtrl,
                   respCookie, retErr, collected, entriesClosed, errVars,
                   deferred, conVars, returned, requests, abandons>>

\* The handler of StreamSearch, select case entriesChan <- entry.
PushEntry ==
    /\ pc = "push"
    /\ Len(entriesChan) < ChanCap
    /\ entriesChan' = Append(entriesChan, page[idx])
    /\ placed' = placed + 1
    /\ IF idx = Len(page)
         THEN pc' = "handled" /\ idx' = idx
         ELSE pc' = "push" /\ idx' = idx + 1
    /\ UNCHANGED <<nonStreamVars, cfgVars, clientClosed, ctxVars, cookie, page, respCtrl,
                   respCookie, retErr, collected, entriesClosed, errVars,
                   deferred, conVars, returned, requests, abandons>>

\* Fault: a handler whose push has no case <-ctx.Done(): it only waits for
\* room in the channel.
PushWithoutDone ==
    /\ pc = "push"
    /\ FALSE
    /\ UNCHANGED vars

\* The handler of StreamSearch, select case <-ctx.Done(): the entry in hand
\* is dropped, the handler returns ctx.Err(), executeSearch abandons and
\* returns it.
PushCancelled ==
    /\ pc = "push"
    /\ InnerCtxDone
    /\ AbandonIfPaging
    /\ retErr' = CtxErr
    /\ pc' = "ret"
    /\ UNCHANGED <<nonStreamVars, cfgVars, clientClosed, ctxVars, page, idx, respCtrl,
                   respCookie, collected, entVars, errVars, deferred, conVars,
                   returned, requests, placed>>

\* Fault: a loop that asks for the next page without SetCookie.
NextPageKeepsCookie ==
    /\ pc = "handled"
    /\ IF ~supportPaging \/ ~respCtrl \/ respCookie = 0
         THEN pc' = "ret" /\ UNCHANGED cookie
         ELSE pc' = "check" /\ UNCHANGED cookie
    /\ UNCHANGED <<nonStreamVars, cfgVars, clientClosed, ctxVars, page, idx, respCtrl,
                   respCookie, retErr, collected, entVars, errVars, deferred,
                   conVars, histVars>>

\* After the handler: stop without paging, without a paging control in the
\* response, or on an empty cookie; otherwise carry the cookie over.
NextPage ==
    /\ pc = "handled"
    /\ IF ~supportPaging \/ ~respCtrl \/ respCookie = 0
         THEN pc' = "ret" /\ UNCHANGED cookie
         ELSE pc' = "check" /\ cookie' = respCookie
    /\ UNCHANGED <<nonStreamVars, cfgVars, clientClosed, ctxVars, page, idx, respCtrl,
                   respCookie, retErr, collected, entVars, errVars, deferred,
                   conVars, histVars>>

\* ------------------------------------------------ ldapClient.StreamSearch
\* After executeSearch: if err != nil { errChan <- err }; the goroutine
\* then returns into its deferred calls.
SendErr ==
    /\ pc = "ret"
    /\ handler = "stream"
    /\ IF retErr # NoErr
         THEN /\ Len(errChan) < 1
              /\ errChan' = Append(errChan, retErr)
              /\ errSends' = errSends + 1
         ELSE UNCHANGED <<errChan, errSends>>
    /\ pc' = "defer"
    /\ UNCHANGED <<nonStreamVars, cfgVars, clientClosed, ctxVars, loopVars, retErr, collected,
                   entVars, errClosed, deferred, conVars, histVars>>

\* The deferred closes run one at a time.
RunDeferred ==
    /\ pc = "defer"
    /\ deferred # <<>>
    /\ LET call == NextDeferred(deferred) IN
         /\ errClosed' = (errClosed \/ call = "closeErr")
         /\ entriesClosed' = (entriesClosed \/ call = "closeEntries")
    /\ deferred' = PopDeferred(deferred)
    /\ pc' = IF deferred' = <<>> THEN "done" ELSE "defer"
    /\ UNCHANGED <<nonStreamVars, cfgVars, clientClosed, ctxVars, loopVars, retErr, collected,
                   entriesChan, errChan, errSends, conVars, histVars>>

\* ------------------------------------------------------ ldapClient.Search
\* Search returns (entries, nil) or (nil, err) to its caller.
SearchReturns ==
    /\ pc = "ret"
    /\ handler = "collect"
    /\ collected' = IF retErr # NoErr THEN <<>> ELSE collected
    /\ pc' = "returned"
    /\ UNCHANGED <<nonStreamVars, cfgVars, clientClosed, ctxVars, loopVars, retErr, entVars,
                   errVars, deferred, conVars, histVars>>

Worker ==
    \/ CheckCancel
    \/ SearchFails
    \/ SearchSucceeds
    \/ PushEntry
    \/ PushCancelled
    \/ NextPage
    \/ SendErr
    \/ RunDeferred
    \/ SearchReturns

\* ------------------------------------------------------------ the caller
\* cancel() of the caller's context.
Cancel ==
    /\ ~ctxDone
    /\ ctxDone' = TRUE
    /\ cancelAt' = [pc |-> pc, placed |-> placed, requests |-> Len(requests)]
    /\ UNCHANGED <<nonStreamVars, cfgVars, clientClosed, attemptCancelled, pc, loopVars,
                   retErr, collected, entVars, errVars, deferred, conVars,
                   histVars>>

\* RunQuery: printer.StreamPrint ranges over the entry channel ...
ConsumerRecv ==
    /\ conPc = "range"
    /\ entriesChan # <<>>
    /\ received' = Append(received, Head(entriesChan))
    /\ entriesChan' = Tail(entriesChan)
    /\ UNCHANGED <<nonStreamVars, cfgVars, clientClosed, ctxVars, pc, loopVars, retErr,
                   collected, entriesClosed, errVars, deferred, conPc, conErr,
                   histVars>>

\* ... until it is closed and drained ...
ConsumerSeesClose ==
    /\ conPc = "range"
    /\ entriesChan = <<>>
    /\ entriesClosed
    /\ conPc' = "readerr"
    /\ UNCHANGED <<nonStreamVars, cfgVars, clientClosed, ctxVars, pc, loopVars, retErr,
                   collected, entVars, errVars, deferred, received, conErr,
                   histVars>>

\* ... then err := <-errChan (nil when the channel is closed and empty).
ConsumerReadsErr ==
    /\ conPc = "readerr"
    /\ errChan # <<>> \/ errClosed
    /\ conErr' = IF errChan # <<>> THEN Head(errChan) ELSE NoErr
    /\ errChan' = IF errChan # <<>> THEN Tail(errChan) ELSE errChan
    /\ conPc' = "done"
    /\ UNCHANGED <<nonStreamVars, cfgVars, clientClosed, ctxVars, pc, loopVars, retErr,
                   collected, entVars, errClosed, errSends, deferred, received,
                   histVars>>

Consumer ==
    \/ ConsumerRecv
    \/ ConsumerSeesClose
    \/ ConsumerReadsErr

Next ==
    \/ Worker
    \/ Cancel
    \/ Consumer

Spec == Init /\ [][Next]_vars

\* ======================================================= ResilientClient
\* cancel() of the context the caller handed to the wrapper.
CancelCtx ==
    /\ ~ctxDone
    /\ ctxDone' = TRUE
    /\ UNCHANGED <<nonStreamVars, cfgVars, clientClosed, attemptCancelled,
                   cancelAt, pc, loopVars, retErr, collected, entVars, errVars,
                   deferred, conVars, histVars>>

\* NewResilientClient around an ldapClient; the caller invokes Search or
\* StreamSearch once.
\* A fresh wrapper: the operation invoked is one of modes, MaxAttempts of the
\* retry configuration is at most most.
ResilientStart(modes, most) ==
    /\ sessCloses = <<>>
    /\ NoCall
    /\ supportPaging \in BOOLEAN
    /\ srvTotal \in 0..RcMaxEntries
    /\ rcMode \in modes
    /\ handler = (IF rcMode = "stream" THEN "stream" ELSE "collect")
    /\ clientClosed = FALSE
    /\ ctxDone = FALSE
    /\ attemptCancelled = FALSE
    /\ cancelAt = NoCancel
    /\ FreshSearch
    /\ conPc = "idle"
    /\ received = <<>>
    /\ conErr = NoErr
    /\ maxAttempts \in 1..most
    /\ onRetrySet \in BOOLEAN
    /\ onFailureSet = onRetrySet
    /\ rcPc = "loop"
    /\ attempt = 0
    /\ lastErr = NoErr
    /\ inHand = 0
    /\ outChan = <<>>
    /\ outClosed = FALSE
    /\ outErrChan = <<>>
    /\ outErrClosed = FALSE
    /\ outErrSent = <<>>
    /\ rcDeferred = WorkerDefers
    /\ rcResult = [entries |-> <<>>, err |-> NoErr]
    /\ callerPc = (IF rcMode = "stream" THEN "range" ELSE "idle")
    /\ callerReceived = <<>>
    /\ callerErr = NoErr
    /\ invoked = 0
    /\ sleeps = 0
    /\ reconnects = 0
    /\ attemptErrs = <<>>
    /\ onRetryCalls = <<>>
    /\ onFailureCalls = <<>>
    /\ PoolIdle

ResilientInit == ResilientStart({"search", "stream"}, MaxAttempts)

\* The outcome of the current attempt as the underlying client produced it.
AttemptOutcome ==
    IF pc \in {"ret", "defer", "done", "returned"} THEN retErr ELSE Unfinished

\* errChan <- e on the wrapper's error channel.
OutErrSend(e) ==
    /\ outErrChan' = Append(outErrChan, e)
    /\ outErrSent' = Append(outErrSent, e)

\* ResilientClient.Search returns (entries, err).
RcReturn(entries, e) ==
    rcResult' = [entries |-> entries, err |-> e]

\* rc.reconnect: closes the underlying client and reports
\* "reconnect not supported".
Reconnect ==
    /\ clientClosed' = TRUE
    /\ reconnects' = reconnects + 1

\* The tail of a failed, retryable attempt: retry callback, reconnect on a
\* connection error, next iteration.
RetryTail(err) ==
    /\ onRetryCalls' = IF onRetrySet
                          THEN Append(onRetryCalls,
                                      [attempt |-> attempt + 1, err |-> err])
                          ELSE onRetryCalls
    /\ IF isConnectionError(err)
         THEN Reconnect
         ELSE UNCHANGED <<clientClosed, reconnects>>
    /\ attempt' = attempt + 1
    /\ rcPc' = "loop"

\* for attempt := 0; attempt < MaxAttempts; attempt++ { if attempt > 0 ...
RcLoop ==
    /\ rcPc = "loop"
    /\ rcPc' = IF attempt >= maxAttempts THEN "exhausted"
               ELSE IF attempt > 0 THEN "sleep" ELSE "call"
    /\ UNCHANGED <<poolVars, otherVars, streamVars, rcCfgVars, attempt, lastErr, inHand, outVars,
                   rcDeferred, rcResult, callerVars, rcHistVars>>

\* select case <-time.After(delay)
RcSleep ==
    /\ rcPc = "sleep"
    /\ sleeps' = sleeps + 1
    /\ rcPc' = "call"
    /\ UNCHANGED <<poolVars, otherVars, streamVars, rcCfgVars, attempt, lastErr, inHand, outVars,
                   rcDeferred, rcResult, callerVars, invoked, reconnects,
                   attemptErrs, onRetryCalls, onFailureCalls>>

\* select case <-ctx.Done() during the backoff.
RcSleepCancelled ==
    /\ rcPc = "sleep"
    /\ ctxDone
    /\ IF rcMode = "stream"
         THEN /\ OutErrSend(CtxErr)
              /\ rcPc' = "defer"
              /\ UNCHANGED rcResult
         ELSE /\ RcReturn(<<>>, CtxErr)
              /\ rcPc' = "done"
              /\ UNCHANGED <<outErrChan, outErrSent>>
    /\ UNCHANGED <<poolVars, otherVars, streamVars, rcCfgVars, attempt, lastErr, inHand, outChan,
                   outClosed, outErrClosed, rcDeferred, callerVars,
                   rcHistVars>>

\* rc.client.Search(ctx, ...) / rc.client.StreamSearch(attemptCtx, ...):
\* a fresh run of the underlying ldapClient, with fresh channels.
RcCall ==
    /\ rcPc = "call"
    /\ StartSearch
    /\ attemptCancelled' = FALSE
    /\ invoked' = invoked + 1
    /\ rcPc' = IF rcMode = "stream" THEN "select" ELSE "wait"
    /\ UNCHANGED <<poolVars, otherVars, cfgVars, clientClosed, ctxDone, cancelAt, conVars,
                   rcCfgVars, attempt, lastErr, inHand, outVars, rcDeferred,
                   rcResult, callerVars, sleeps, reconnects, attemptErrs,
                   onRetryCalls, onFailureCalls>>

\* ResilientClient.Search: the underlying Search has returned.
RcSearchReturned ==
    /\ rcPc = "wait"
    /\ pc = "returned"
    /\ attemptErrs' = Append(attemptErrs, AttemptOutcome)
    /\ IF retErr = NoErr
         THEN /\ RcReturn(collected, NoErr)
              /\ rcPc' = "done"
              /\ UNCHANGED <<lastErr, attempt, clientClosed, reconnects,
                             onRetryCalls>>
         ELSE /\ lastErr' = retErr
              /\ UNCHANGED rcResult
              /\ IF ~IsRetryableError(retErr) /\ ~isTemporaryError(retErr)
                   THEN /\ rcPc' = "exhausted"
                        /\ UNCHANGED <<attempt, clientClosed, reconnects,
                                       onRetryCalls>>
                   ELSE RetryTail(retErr)
    /\ UNCHANGED <<poolVars, otherVars, cfgVars, ctxVars, pc, loopVars, retErr, collected, entVars,
                   errVars, deferred, conVars, histVars, rcCfgVars, inHand,
                   outVars, rcDeferred, callerVars, invoked, sleeps,
                   onFailureCalls>>

\* StreamSearch, select case entry, ok := <-innerEntries with ok.
RcRecvEntry ==
    /\ rcPc = "select"
    /\ entriesChan # <<>>
    /\ inHand' = Head(entriesChan)
    /\ entriesChan' = Tail(entriesChan)
    /\ rcPc' = "forward"
    /\ UNCHANGED <<poolVars, otherVars, cfgVars, clientClosed, ctxVars, pc, loopVars, retErr,
                   collected, entriesClosed, errVars, deferred, conVars,
                   histVars, rcCfgVars, attempt, lastErr, outVars, rcDeferred,
                   rcResult, callerVars, rcHistVars>>

\* StreamSearch, select case entry, ok := <-innerEntries with !ok:
\* done = true, the attempt is left for the retry tail.
RcEntriesClosed ==
    /\ rcPc = "select"
    /\ entriesChan = <<>>
    /\ entriesClosed
    /\ attemptErrs' = Append(attemptErrs, AttemptOutcome)
    /\ rcPc' = "after"
    /\ UNCHANGED <<poolVars, otherVars, streamVars, rcCfgVars, attempt, lastErr, inHand, outVars,
                   rcDeferred, rcResult, callerVars, invoked, sleeps,
                   reconnects, onRetryCalls, onFailureCalls>>

\* Fault: a wrapper that forwards the non-retryable error and goes on to
\* the next attempt instead of returning.
RcRecvErrNoReturn ==
    /\ rcPc = "select"
    /\ errChan # <<>>
    /\ errChan' = Tail(errChan)
    /\ lastErr' = Head(errChan)
    /\ attemptErrs' = Append(attemptErrs, AttemptOutcome)
    /\ IF ~IsRetryableError(lastErr') /\ ~isTemporaryError(lastErr')
         THEN /\ Len(outErrChan) < 1
              /\ OutErrSend(lastErr')
         ELSE UNCHANGED <<outErrChan, outErrSent>>
    /\ rcPc' = "after"
    /\ UNCHANGED <<poolVars, otherVars, cfgVars, clientClosed, ctxVars, pc, loopVars,
                   retErr, collected, entVars, errClosed, errSends, deferred,
                   conVars, histVars, rcCfgVars, attempt, inHand, outChan,
                   outClosed, outErrClosed, rcDeferred, rcResult, callerVars,
                   invoked, sleeps, reconnects, onRetryCalls, onFailureCalls>>

\* StreamSearch, select case err, ok := <-innerErr with ok && err != nil.
RcRecvErr ==
    /\ rcPc = "select"
    /\ errChan # <<>>
    /\ errChan' = Tail(errChan)
    /\ lastErr' = Head(errChan)
    /\ attemptErrs' = Append(attemptErrs, AttemptOutcome)
    /\ IF ~IsRetryableError(lastErr') /\ ~isTemporaryError(lastErr')
         THEN /\ attemptCancelled' = TRUE
              /\ OutErrSend(lastErr')
              /\ rcPc' = "defer"
         ELSE /\ rcPc' = "after"
              /\ UNCHANGED <<attemptCancelled, outErrChan, outErrSent>>
    /\ UNCHANGED <<poolVars, otherVars, cfgVars, clientClosed, ctxDone, cancelAt, pc, loopVars,
                   retErr, collected, entVars, errClosed, errSends, deferred,
                   conVars, histVars, rcCfgVars, attempt, inHand, outChan,
                   outClosed, outErrClosed, rcDeferred, rcResult, callerVars,
                   invoked, sleeps, reconnects, onRetryCalls, onFailureCalls>>

\* StreamSearch, select case err, ok := <-innerErr with !ok: "Success!".
RcErrClosed ==
    /\ rcPc = "select"
    /\ errChan = <<>>
    /\ errClosed
    /\ attemptErrs' = Append(attemptErrs, AttemptOutcome)
    /\ attemptCancelled' = TRUE
    /\ rcPc' = "defer"
    /\ UNCHANGED <<poolVars, otherVars, cfgVars, clientClosed, ctxDone, cancelAt, pc, loopVars,
                   retErr, collected, entVars, errVars, deferred, conVars,
                   histVars, rcCfgVars, attempt, lastErr, inHand, outVars,
                   rcDeferred, rcResult, callerVars, invoked, sleeps,
                   reconnects, onRetryCalls, onFailureCalls>>

\* StreamSearch, the case <-ctx.Done() of the outer select and of the
\* forwarding select: cancel(); errChan <- ctx.Err(); return.
RcCancelled ==
    /\ rcPc \in {"select", "forward"}
    /\ ctxDone
    /\ attemptErrs' = Append(attemptErrs, AttemptOutcome)
    /\ attemptCancelled' = TRUE
    /\ OutErrSend(CtxErr)
    /\ rcPc' = "defer"
    /\ UNCHANGED <<poolVars, otherVars, cfgVars, clientClosed, ctxDone, cancelAt, pc, loopVars,
                   retErr, collected, entVars, errVars, deferred, conVars,
                   histVars, rcCfgVars, attempt, lastErr, inHand, outChan,
                   outClosed, outErrClosed, rcDeferred, rcResult, callerVars,
                   invoked, sleeps, reconnects, onRetryCalls, onFailureCalls>>

\* StreamSearch, forwarding select case entriesChan <- entry.
RcForward ==
    /\ rcPc = "forward"
    /\ Len(outChan) < ChanCap
    /\ outChan' = Append(outChan, inHand)
    /\ rcPc' = "select"
    /\ UNCHANGED <<poolVars, otherVars, streamVars, rcCfgVars, attempt, lastErr, inHand, outClosed,
                   outErrChan, outErrClosed, outErrSent, rcDeferred, rcResult,
                   callerVars, rcHistVars>>

\* StreamSearch after the forwarding loop: cancel(), retry callback,
\* reconnect on a connection error, next iteration.
RcAfter ==
    /\ rcPc = "after"
    /\ attemptCancelled' = TRUE
    /\ RetryTail(lastErr)
    /\ UNCHANGED <<poolVars, otherVars, cfgVars, ctxDone, cancelAt, pc, loopVars, retErr, collected,
                   entVars, errVars, deferred, conVars, histVars, rcCfgVars,
                   lastErr, inHand, outVars, rcDeferred, rcResult, callerVars,
                   invoked, sleeps, attemptErrs, onFailureCalls>>

\* "All retries exhausted": failure callback, then the wrapping error.
RcExhausted ==
    /\ rcPc = "exhausted"
    /\ onFailureCalls' = IF onFailureSet THEN Append(onFailureCalls, lastErr)
                                         ELSE onFailureCalls
    /\ IF rcMode = "stream"
         THEN /\ OutErrSend(AfterAttempts(maxAttempts, lastErr))
              /\ rcPc' = "defer"
              /\ UNCHANGED rcResult
         ELSE /\ RcReturn(<<>>, AfterAttempts(maxAttempts, lastErr))
              /\ rcPc' = "done"
              /\ UNCHANGED <<outErrChan, outErrSent>>
    /\ UNCHANGED <<poolVars, otherVars, streamVars, rcCfgVars, attempt, lastErr, inHand, outChan,
                   outClosed, outErrClosed, rcDeferred, callerVars, invoked,
                   sleeps, reconnects, attemptErrs, onRetryCalls>>

\* The wrapper's goroutine returns: its deferred closes run one at a time.
RcRunDeferred ==
    /\ rcPc = "defer"
    /\ rcDeferred # <<>>
    /\ LET call == NextDeferred(rcDeferred) IN
         /\ outErrClosed' = (outErrClosed \/ call = "closeErr")
         /\ outClosed' = (outClosed \/ call = "closeEntries")
    /\ rcDeferred' = PopDeferred(rcDeferred)
    /\ rcPc' = IF rcDeferred' = <<>> THEN "done" ELSE "defer"
    /\ UNCHANGED <<poolVars, otherVars, streamVars, rcCfgVars, attempt, lastErr, inHand, outChan,
                   outErrChan, outErrSent, rcResult, callerVars, rcHistVars>>

Wrapper ==
    \/ RcLoop
    \/ RcSleep
    \/ RcSleepCancelled
    \/ RcCall
    \/ RcSearchReturned
    \/ RcRecvEntry
    \/ RcEntriesClosed
    \/ RcRecvErr
    \/ RcErrClosed
    \/ RcCancelled
    \/ RcForward
    \/ RcAfter
    \/ RcExhausted
    \/ RcRunDeferred

\* The caller ranges over the wrapper's entry channel ...
CallerRecv ==
    /\ callerPc = "range"
    /\ outChan # <<>>
    /\ callerReceived' = Append(callerReceived, Head(outChan))
    /\ outChan' = Tail(outChan)
    /\ UNCHANGED <<poolVars, otherVars, streamVars, rcCfgVars, rcPc, attempt, lastErr, inHand,
                   outClosed, outErrChan, outErrClosed, outErrSent, rcDeferred,
                   rcResult, callerPc, callerErr, rcHistVars>>

\* ... until it is closed and drained ...
CallerSeesClose ==
    /\ callerPc = "range"
    /\ outChan = <<>>
    /\ outClosed
    /\ callerPc' = "readerr"
    /\ UNCHANGED <<poolVars, otherVars, streamVars, rcCfgVars, rcPc, attempt, lastErr, inHand,
                   outVars, rcDeferred, rcResult, callerReceived, callerErr,
                   rcHistVars>>

\* ... then reads the error channel.
CallerReadsErr ==
    /\ callerPc = "readerr"
    /\ outErrChan # <<>> \/ outErrClosed
    /\ callerErr' = IF outErrChan # <<>> THEN Head(outErrChan) ELSE NoErr
    /\ outErrChan' = IF outErrChan # <<>> THEN Tail(outErrChan) ELSE outErrChan
    /\ callerPc' = "done"
    /\ UNCHANGED <<poolVars, otherVars, streamVars, rcCfgVars, rcPc, attempt, lastErr, inHand,
                   outChan, outClosed, outErrClosed, outErrSent, rcDeferred,
                   rcResult, callerReceived, rcHistVars>>

Caller ==
    \/ CallerRecv
    \/ CallerSeesClose
    \/ CallerReadsErr

ResilientNext ==
    \/ Wrapper
    \/ Worker
    \/ CancelCtx
    \/ Caller

SpecResilient == ResilientInit /\ [][ResilientNext]_vars

\* ============================================================== ConnPool
Procs == 1..NumProcs

\* NewConnPool pre-creates half of the connections, at least one.
initialConns(max) == IF max \div 2 < 1 THEN 1 ELSE max \div 2

\* No search of an ldapClient is running.
StreamIdle ==
    /\ supportPaging = FALSE
    /\ srvTotal = 0
    /\ handler = "none"
    /\ clientClosed = FALSE
    /\ ctxDone = FALSE
    /\ attemptCancelled = FALSE
    /\ cancelAt = NoCancel
    /\ pc = "idle"
    /\ cookie = 0
    /\ page = <<>>
    /\ idx = 1
    /\ respCtrl = FALSE
    /\ respCookie = 0
    /\ retErr = NoErr
    /\ collected = <<>>
    /\ entriesChan = <<>>
    /\ entriesClosed = FALSE
    /\ errChan = <<>>
    /\ errClosed = FALSE
    /\ errSends = 0
    /\ deferred = <<>>
    /\ conPc = "idle"
    /\ received = <<>>
    /\ conErr = NoErr
    /\ returned = <<>>
    /\ requests = <<>>
    /\ abandons = <<>>
    /\ placed = 0

\* NewConnPool: each pre-creation may fail and is then skipped.
PoolInit ==
    /\ StreamIdle
    /\ RcIdle
    /\ NoCall
    /\ maxSize \in 1..MaxConns
    /\ \E n \in 0..initialConns(maxSize) :
         /\ conns = n
         /\ connCount = n
         /\ open = n
    /\ connsClosed = FALSE
    /\ closed = FALSE
    /\ panic = "none"
    /\ ppc = [p \in Procs |-> "idle"]
    /\ cur = [p \in Procs |-> 0]
    /\ mode = [p \in Procs |-> "raw"]
    /\ psPending = 0
    /\ psChan = 0
    /\ psEntClosed = FALSE
    /\ psErrChan = <<>>
    /\ psErrClosed = FALSE
    /\ psDeferred = <<>>
    /\ psEnded = FALSE
    /\ closeReturned = FALSE
    /\ drained = 0
    /\ lateGet = "none"
    /\ putIntoClosed = FALSE

\* The deferred calls of the PoolingClient.StreamSearch goroutine, in the
\* order of the defer statements.
PoolingDefers == <<"closeEntries", "closeErr", "put">>

\* ------------------------------------------------------------ ConnPool.Get
\* Get returns (nil, err). Inside PoolingClient.StreamSearch the error goes
\* on a fresh, closed error channel and a fresh unbuffered entry channel is
\* returned; no goroutine is started.
GetReturnsErr(p, err) ==
    /\ ppc' = [ppc EXCEPT ![p] = "idle"]
    /\ mode' = [mode EXCEPT ![p] = "raw"]
    /\ IF mode[p] = "stream"
         THEN /\ psErrChan' = <<err>>
              /\ psErrClosed' = TRUE
              /\ psEntClosed' = FALSE
              /\ psChan' = 0
              /\ psEnded' = TRUE
         ELSE UNCHANGED <<psErrChan, psErrClosed, psEntClosed, psChan, psEnded>>

\* Get returns (conn, nil).
GetReturnsConn(p) ==
    ppc' = [ppc EXCEPT ![p] = IF mode[p] = "stream" THEN "ps_search"
                                                    ELSE "holding"]

\* A goroutine calls Get, directly or through PoolingClient.StreamSearch
\* (one streaming search at a time):
\* if atomic.LoadInt32(&p.closed) == 1 { return nil, error }
GetCheck(p) ==
    /\ panic = "none"
    /\ ppc[p] = "idle"
    /\ lateGet' = IF ~closeReturned THEN lateGet
                   ELSE IF closed /\ lateGet # "passed" THEN "failed"
                   ELSE "passed"
    /\ \E m \in {"raw", "stream"} :
         /\ m = "stream" => \A q \in Procs : mode[q] # "stream"
         /\ IF closed
              THEN /\ UNCHANGED <<ppc, mode, psPending, psDeferred>>
                   /\ IF m = "stream"
                        THEN /\ psErrChan' = <<PoolClosedErr>>
                             /\ psErrClosed' = TRUE
                             /\ psEntClosed' = FALSE
                             /\ psChan' = 0
                             /\ psEnded' = TRUE
                        ELSE UNCHANGED <<psErrChan, psErrClosed, psEntClosed,
                                         psChan, psEnded>>
              ELSE /\ ppc' = [ppc EXCEPT ![p] = "get_select"]
                   /\ mode' = [mode EXCEPT ![p] = m]
                   /\ IF m = "stream"
                        THEN /\ psPending' = 0
                             /\ psChan' = 0
                             /\ psEntClosed' = FALSE
                             /\ psErrChan' = <<>>
                             /\ psErrClosed' = FALSE
                             /\ psDeferred' = PoolingDefers
                             /\ psEnded' = FALSE
                        ELSE UNCHANGED psVars
    /\ UNCHANGED <<streamVars, rcVars, otherVars, poolCoreVars, cur, closeReturned,
                   drained, putIntoClosed>>

\* case conn := <-p.conns, of the first select and of the waiting select.
GetRecv(p) ==
    /\ panic = "none"
    /\ ppc[p] \in {"get_select", "get_wait"}
    /\ conns > 0
    /\ cur' = [cur EXCEPT ![p] = 1]
    /\ conns' = conns - 1
    /\ ppc' = [ppc EXCEPT ![p] = "get_alive"]
    /\ UNCHANGED <<streamVars, rcVars, otherVars, maxSize, connsClosed, closed, connCount,
                   open, panic, mode, psVars, poolHistVars>>

\* The same case on the closed, drained channel: conn is nil, isAlive(nil)
\* is false, and conn.Close() dereferences the nil connection.
GetRecvNil(p) ==
    /\ panic = "none"
    /\ ppc[p] \in {"get_select", "get_wait"}
    /\ conns = 0
    /\ connsClosed
    /\ panic' = "nil connection"
    /\ UNCHANGED <<streamVars, rcVars, otherVars, maxSize, conns, connsClosed, closed,
                   connCount, open, procVars, psVars, poolHistVars>>

\* case <-ctx.Done(): return nil, ctx.Err()
GetCtxDone(p) ==
    /\ panic = "none"
    /\ ppc[p] \in {"get_select", "get_wait"}
    /\ ctxDone
    /\ GetReturnsErr(p, CtxErr)
    /\ UNCHANGED <<streamVars, rcVars, otherVars, poolCoreVars, cur, psPending,
                   psDeferred, closeReturned, drained, lateGet, putIntoClosed>>

\* default: the pool is empty; wait when connCount >= maxSize, else create.
GetDefault(p) ==
    /\ panic = "none"
    /\ ppc[p] = "get_select"
    /\ conns = 0
    /\ ~connsClosed
    /\ ~ctxDone
    /\ ppc' = [ppc EXCEPT ![p] = IF connCount >= maxSize THEN "get_wait"
                                                         ELSE "get_create"]
    /\ UNCHANGED <<streamVars, rcVars, otherVars, poolCoreVars, cur, mode, psVars,
                   poolHistVars>>

\* p.isAlive(conn) is true: return conn, nil
GetAlive(p) ==
    /\ panic = "none"
    /\ ppc[p] = "get_alive"
    /\ GetReturnsConn(p)
    /\ UNCHANGED <<streamVars, rcVars, otherVars, poolCoreVars, cur, mode, psVars,
                   poolHistVars>>

\* p.isAlive(conn) is false: close it, decrement, fall through to create.
GetDead(p) ==
    /\ panic = "none"
    /\ ppc[p] = "get_alive"
    /\ open' = open - cur[p]
    /\ connCount' = connCount - 1
    /\ cur' = [cur EXCEPT ![p] = 0]
    /\ ppc' = [ppc EXCEPT ![p] = "get_create"]
    /\ UNCHANGED <<streamVars, rcVars, otherVars, maxSize, conns, connsClosed, closed,
                   panic, mode, psVars, poolHistVars>>

\* conn, err := p.factory() with err == nil
GetCreate(p) ==
    /\ panic = "none"
    /\ ppc[p] = "get_create"
    /\ open' = open + 1
    /\ cur' = [cur EXCEPT ![p] = 1]
    /\ ppc' = [ppc EXCEPT ![p] = "get_count"]
    /\ UNCHANGED <<streamVars, rcVars, otherVars, maxSize, conns, connsClosed, closed,
                   connCount, panic, mode, psVars, poolHistVars>>

\* conn, err := p.factory() with err != nil
GetCreateFails(p) ==
    /\ panic = "none"
    /\ ppc[p] = "get_create"
    /\ GetReturnsErr(p, FactoryErr)
    /\ UNCHANGED <<streamVars, rcVars, otherVars, poolCoreVars, cur, psPending,
                   psDeferred, closeReturned, drained, lateGet, putIntoClosed>>

\* atomic.AddInt32(&p.connCount, 1); return conn, nil
GetCount(p) ==
    /\ panic = "none"
    /\ ppc[p] = "get_count"
    /\ connCount' = connCount + 1
    /\ GetReturnsConn(p)
    /\ UNCHANGED <<streamVars, rcVars, otherVars, maxSize, conns, connsClosed, closed,
                   open, panic, cur, mode, psVars, poolHistVars>>

\* ------------------------------------------------------------ ConnPool.Put
PutReturns(p) ==
    ppc' = [ppc EXCEPT ![p] = IF mode[p] = "stream" THEN "ps_defer"
                                                    ELSE "idle"]

\* The holder of a connection calls Put(conn):
\* if atomic.LoadInt32(&p.closed) == 1 { return conn.Close() }
PutCheck(p) ==
    /\ panic = "none"
    /\ ppc[p] = "holding"
    /\ IF closed
         THEN /\ open' = open - cur[p]
              /\ cur' = [cur EXCEPT ![p] = 0]
              /\ PutReturns(p)
         ELSE /\ ppc' = [ppc EXCEPT ![p] = "put_select"]
              /\ UNCHANGED <<open, cur>>
    /\ UNCHANGED <<streamVars, rcVars, otherVars, maxSize, conns, connsClosed, closed,
                   connCount, panic, mode, psVars, poolHistVars>>

\* select case p.conns <- conn
PutSend(p) ==
    /\ panic = "none"
    /\ ppc[p] = "put_select"
    /\ ~connsClosed
    /\ conns < maxSize
    /\ conns' = conns + cur[p]
    /\ cur' = [cur EXCEPT ![p] = 0]
    /\ putIntoClosed' = (putIntoClosed \/ closed)
    /\ PutReturns(p)
    /\ UNCHANGED <<streamVars, rcVars, otherVars, maxSize, connsClosed, closed, connCount,
                   open, panic, mode, psVars, closeReturned, drained, lateGet>>

\* select default: the pool is full, close the connection.
PutFull(p) ==
    /\ panic = "none"
    /\ ppc[p] = "put_select"
    /\ ~connsClosed
    /\ conns >= maxSize
    /\ connCount' = connCount - 1
    /\ open' = open - cur[p]
    /\ cur' = [cur EXCEPT ![p] = 0]
    /\ PutReturns(p)
    /\ UNCHANGED <<streamVars, rcVars, otherVars, maxSize, conns, connsClosed, closed,
                   panic, mode, psVars, poolHistVars>>

\* select case p.conns <- conn on the closed channel: Go panics.
PutPanics(p) ==
    /\ panic = "none"
    /\ ppc[p] = "put_select"
    /\ connsClosed
    /\ panic' = "send on closed channel"
    /\ UNCHANGED <<streamVars, rcVars, otherVars, maxSize, conns, connsClosed, closed,
                   connCount, open, procVars, psVars, poolHistVars>>

\* ---------------------------------------------------------- ConnPool.Close
\* Fault: a Close that goes on whatever the CompareAndSwap answered.
CloseCasUnchecked(p) ==
    /\ panic = "none"
    /\ ppc[p] = "idle"
    /\ closed' = TRUE
    /\ ppc' = [ppc EXCEPT ![p] = "close_chan"]
    /\ UNCHANGED <<streamVars, rcVars, otherVars, maxSize, conns, connsClosed,
                   connCount, open, panic, cur, mode, psVars, poolHistVars>>

\* if !atomic.CompareAndSwapInt32(&p.closed, 0, 1) { return nil }
CloseCas(p) ==
    /\ panic = "none"
    /\ ppc[p] = "idle"
    /\ closed' = TRUE
    /\ ppc' = [ppc EXCEPT ![p] = IF closed THEN "close_again"
                                           ELSE "close_chan"]
    /\ UNCHANGED <<streamVars, rcVars, otherVars, maxSize, conns, connsClosed, connCount,
                   open, panic, cur, mode, psVars, poolHistVars>>

\* return nil // Already closed
CloseAgain(p) ==
    /\ panic = "none"
    /\ ppc[p] = "close_again"
    /\ ppc' = [ppc EXCEPT ![p] = "idle"]
    /\ UNCHANGED <<streamVars, rcVars, otherVars, poolCoreVars, cur, mode,
                   psVars, poolHistVars>>

\* p.mu.Lock(); close(p.conns): closing a closed channel panics.
CloseChan(p) ==
    /\ panic = "none"
    /\ ppc[p] = "close_chan"
    /\ IF connsClosed
         THEN /\ panic' = "close of closed channel"
              /\ UNCHANGED <<connsClosed, ppc>>
         ELSE /\ connsClosed' = TRUE
              /\ ppc' = [ppc EXCEPT ![p] = "close_drain"]
              /\ UNCHANGED panic
    /\ UNCHANGED <<streamVars, rcVars, otherVars, maxSize, conns, closed,
                   connCount, open, cur, mode, psVars, poolHistVars>>

\* Fault: a Close that empties the channel without closing the
\* connections it takes out.
CloseDrainLeavesOpen(p) ==
    /\ panic = "none"
    /\ ppc[p] = "close_drain"
    /\ conns > 0
    /\ conns' = conns - 1
    /\ connCount' = connCount - 1
    /\ drained' = drained + 1
    /\ UNCHANGED <<streamVars, rcVars, otherVars, maxSize, connsClosed, closed, open,
                   panic, procVars, psVars, closeReturned, lateGet,
                   putIntoClosed>>

\* for conn := range p.conns { conn.Close(); connCount-- }
CloseDrain(p) ==
    /\ panic = "none"
    /\ ppc[p] = "close_drain"
    /\ conns > 0
    /\ open' = open - 1
    /\ conns' = conns - 1
    /\ connCount' = connCount - 1
    /\ drained' = drained + 1
    /\ UNCHANGED <<streamVars, rcVars, otherVars, maxSize, connsClosed, closed, panic,
                   procVars, psVars, closeReturned, lateGet,
                   putIntoClosed>>

\* The range loop ends on the drained channel; Close returns nil.
CloseReturns(p) ==
    /\ panic = "none"
    /\ ppc[p] = "close_drain"
    /\ conns = 0
    /\ closeReturned' = TRUE
    /\ ppc' = [ppc EXCEPT ![p] = "idle"]
    /\ UNCHANGED <<streamVars, rcVars, otherVars, poolCoreVars, cur, mode, psVars,
                   drained, lateGet, putIntoClosed>>

\* -------------------------------------------- PoolingClient.StreamSearch
\* searchWithConn returns the entries of all pages.
PsSearch(p) ==
    /\ panic = "none"
    /\ ppc[p] = "ps_search"
    /\ \E n \in 0..PsMaxEntries :
         /\ psPending' = n
         /\ ppc' = [ppc EXCEPT ![p] = IF n = 0 THEN "ps_defer" ELSE "ps_push"]
    /\ UNCHANGED <<streamVars, rcVars, otherVars, poolCoreVars, cur, mode, psChan,
                   psEntClosed, psErrChan, psErrClosed, psDeferred, psEnded,
                   poolHistVars>>

\* searchWithConn fails: errChan <- err; return
PsSearchFails(p) ==
    /\ panic = "none"
    /\ ppc[p] = "ps_search"
    /\ \E t \in SrvErrTexts : psErrChan' = Append(psErrChan, SearchFailed(t))
    /\ ppc' = [ppc EXCEPT ![p] = "ps_defer"]
    /\ UNCHANGED <<streamVars, rcVars, otherVars, poolCoreVars, cur, mode, psPending,
                   psChan, psEntClosed, psErrClosed, psDeferred, psEnded,
                   poolHistVars>>

\* select case entriesChan <- entry
PsPush(p) ==
    /\ panic = "none"
    /\ ppc[p] = "ps_push"
    /\ psChan < ChanCap
    /\ psChan' = psChan + 1
    /\ psPending' = psPending - 1
    /\ ppc' = [ppc EXCEPT ![p] = IF psPending' = 0 THEN "ps_defer"
                                                   ELSE "ps_push"]
    /\ UNCHANGED <<streamVars, rcVars, otherVars, poolCoreVars, cur, mode, psEntClosed,
                   psErrChan, psErrClosed, psDeferred, psEnded, poolHistVars>>

\* select case <-ctx.Done(): return
PsPushCancelled(p) ==
    /\ panic = "none"
    /\ ppc[p] = "ps_push"
    /\ ctxDone
    /\ ppc' = [ppc EXCEPT ![p] = "ps_defer"]
    /\ UNCHANGED <<streamVars, rcVars, otherVars, poolCoreVars, cur, mode, psVars,
                   poolHistVars>>

\* The goroutine returns: pc.pool.Put(conn), close(errChan),
\* close(entriesChan) run in that order.
PsRunDeferred(p) ==
    /\ panic = "none"
    /\ ppc[p] = "ps_defer"
    /\ psDeferred # <<>>
    /\ LET call == NextDeferred(psDeferred) IN
         /\ psErrClosed' = (psErrClosed \/ call = "closeErr")
         /\ psEntClosed' = (psEntClosed \/ call = "closeEntries")
         /\ psDeferred' = PopDeferred(psDeferred)
         /\ psEnded' = (psDeferred' = <<>>)
         /\ ppc' = [ppc EXCEPT ![p] = IF call = "put" THEN "holding"
                                      ELSE IF psDeferred' = <<>> THEN "idle"
                                      ELSE "ps_defer"]
         /\ mode' = [mode EXCEPT ![p] = IF psDeferred' = <<>> THEN "raw"
                                                              ELSE "stream"]
    /\ UNCHANGED <<streamVars, rcVars, otherVars, poolCoreVars, cur, psPending, psChan,
                   psErrChan, poolHistVars>>

\* The consumer of the streaming search takes an entry.
PsConsumerRecv ==
    /\ panic = "none"
    /\ psChan > 0
    /\ psChan' = psChan - 1
    /\ UNCHANGED <<streamVars, rcVars, otherVars, poolCoreVars, procVars, psPending,
                   psEntClosed, psErrChan, psErrClosed, psDeferred, psEnded,
                   poolHistVars>>

PoolNext ==
    \/ \E p \in Procs :
         \/ GetCheck(p)
         \/ GetRecv(p)
         \/ GetRecvNil(p)
         \/ GetCtxDone(p)
         \/ GetDefault(p)
         \/ GetAlive(p)
         \/ GetDead(p)
         \/ GetCreate(p)
         \/ GetCreateFails(p)
         \/ GetCount(p)
         \/ PutCheck(p)
         \/ PutSend(p)
         \/ PutFull(p)
         \/ PutPanics(p)
         \/ CloseCas(p)
         \/ CloseAgain(p)
         \/ CloseChan(p)
         \/ CloseDrain(p)
         \/ CloseReturns(p)
         \/ PsSearch(p)
         \/ PsSearchFails(p)
         \/ PsPush(p)
         \/ PsPushCancelled(p)
         \/ PsRunDeferred(p)
    \/ PsConsumerRecv
    \/ CancelCtx

SpecPool == PoolInit /\ [][PoolNext]_vars

\* ================================================================== Close
\* ldapClient.Close, also through ResilientClient.Close: c.conn is never
\* nil after NewClient, so every call goes to conn.Close(), which closes
\* the network connection on the first call only and returns its error.
ClientClose ==
    /\ Len(sessCloses) < MaxCloses
    /\ clientClosed' = TRUE
    /\ \E e \in (IF clientClosed THEN {NoErr} ELSE {NoErr, ConnCloseErr}) :
         sessCloses' = Append(sessCloses, [again |-> clientClosed, err |-> e])
    /\ UNCHANGED <<cfgVars, ctxVars, pc, loopVars, retErr, collected, entVars,
                   errVars, deferred, conVars, histVars, rcVars, poolVars,
                   callVars>>

\* rc.reconnect called by the wrapper after a connection error.
RcReconnects ==
    /\ reconnects < MaxCloses
    /\ Reconnect
    /\ UNCHANGED <<cfgVars, ctxVars, pc, loopVars, retErr, collected, entVars,
                   errVars, deferred, conVars, histVars, rcCfgVars, rcPc,
                   attempt, lastErr, inHand, outVars, rcDeferred, rcResult,
                   callerVars, invoked, sleeps, attemptErrs, onRetryCalls,
                   onFailureCalls, poolVars, otherVars>>

\* Close calls on a session and, concurrently, on a pool.
CloseNext ==
    \/ ClientClose
    \/ RcReconnects
    \/ \E p \in Procs :
         \/ CloseCas(p)
         \/ CloseAgain(p)
         \/ CloseChan(p)
         \/ CloseDrain(p)
         \/ CloseReturns(p)

SpecClose == PoolInit /\ [][CloseNext]_vars

\* ================================================================ backoff
\* Nothing but the function called is in use.
Idle == StreamIdle /\ RcIdle /\ PoolIdle

\* A call returns: only its result changes.
Returns(result) ==
    /\ out = <<>>
    /\ out' = result
    /\ UNCHANGED <<streamVars, rcVars, poolVars, sessCloses, fn, arg, printed>>

RECURSIVE Pow(_, _)
\* math.Pow on the small whole numbers used here.
Pow(b, e) == IF e = 0 THEN 1 ELSE b * Pow(b, e - 1)

\* Retry configurations tried: delays in milliseconds, the multiplier in
\* tenths (20 is 2.0); 0 is the zero value of an unset field.
RetryConfigs ==
    [initialDelay : {0, 100, 200}, maxDelay : {0, 500, 5000},
     multiplier : {0, 10, 15, 20}]

\* Values of time.Now().UnixNano() % 1000 tried.
NanoSamples == {0, 250, 500, 750, 999}

\* NewResilientClient: unset or too small fields get their defaults.
NewResilientClient(cfg) ==
    [initialDelay |-> IF cfg.initialDelay <= 0 THEN 100 ELSE cfg.initialDelay,
     maxDelay |-> IF cfg.maxDelay <= 0 THEN 5000 ELSE cfg.maxDelay,
     multiplier |-> IF cfg.multiplier <= 10 THEN 20 ELSE cfg.multiplier]

\* Fault: a base delay that is not capped.
rcBaseDelayUncapped(cfg, n) ==
    (cfg.initialDelay * Pow(cfg.multiplier, n - 1))
        \div Pow(10, n - 1)

\* rc.calculateBackoff before the jitter:
\* InitialDelay * Multiplier^(attempt-1), capped at MaxDelay.
rcBaseDelay(cfg, n) ==
    Min(cfg.maxDelay,
        (cfg.initialDelay * Pow(cfg.multiplier, n - 1))
            \div Pow(10, n - 1))

\* rc.calculateBackoff: the base delay plus the jitter
\* delay * 0.25 * (2 * nano / 1000 - 1), converted to a Duration.
rcCalculateBackoff(cfg, n, nano) ==
    (rcBaseDelay(cfg, n) * (3000 + 2 * nano)) \div 4000

\* calculateBackoff of the bind retry: the power is converted to a whole
\* Duration before it multiplies InitialDelay; no jitter.
calculateBackoff(n, cfg) ==
    Min(cfg.maxDelay,
        cfg.initialDelay
            * (Pow(cfg.multiplier, n) \div Pow(10, n)))

BackoffInit ==
    /\ Idle
    /\ fn = "calculateBackoff"
    /\ arg \in [cfg : RetryConfigs, attempt : 1..MaxBackoffAttempt,
                 nano : NanoSamples]
    /\ out = <<>>
    /\ printed = <<>>

\* The wrapper computes the delay it sleeps before a retry.
CalculateBackoff ==
    /\ fn = "calculateBackoff"
    /\ LET cfg == NewResilientClient(arg.cfg) IN
         Returns([base |-> rcBaseDelay(cfg, arg.attempt),
                  slept |-> rcCalculateBackoff(cfg, arg.attempt, arg.nano),
                  bind |-> calculateBackoff(arg.attempt, cfg)])

SpecBackoff == BackoffInit /\ [][CalculateBackoff]_vars

\* ----------------------------------------------------- request building
\* Configured size limits tried (0 is unlimited).
SizeLimits == 0..MaxSizeLimit

RequestInit ==
    /\ Idle
    /\ fn \in {"executeSearch", "searchWithConn"}
    /\ arg \in [sizeLimit : SizeLimits, paging : BOOLEAN, cookie : 0..PageSize]
    /\ out = <<>>
    /\ printed = <<>>

\* ldapClient.executeSearch builds the request of one page.
ExecuteSearchBuilds ==
    /\ fn = "executeSearch"
    /\ Returns(executeSearchRequest(arg.sizeLimit, arg.paging, arg.cookie))

\* PoolingClient.searchWithConn builds the request of one page.
SearchWithConnBuilds ==
    /\ fn = "searchWithConn"
    /\ Returns(searchWithConnRequest(arg.sizeLimit, arg.cookie))

RequestNext == ExecuteSearchBuilds \/ SearchWithConnBuilds

SpecRequest == RequestInit /\ [][RequestNext]_vars

\* ================================================================ claims
\* Positions of the worker inside the loop of executeSearch.
InLoop == {"check", "search", "push"}

\* C1 (as stated): the entry channel is closed before the error channel
\* receives its value and before the error channel is closed.
C1_EntriesClosedFirst ==
    (errSends > 0 \/ errClosed) => entriesClosed

\* C1 (amended): the error channel receives its optional value and is closed
\* before the entry channel is closed; nothing is sent on it once it is
\* closed, and the worker ends with both channels closed.
C1_ErrClosedFirst ==
    /\ entriesClosed => (errClosed /\ pc = "done")
    /\ errClosed => pc \in {"defer", "done"}
    /\ pc = "done" => (entriesClosed /\ errClosed)

C1_Witness ==
    entriesClosed /\ errSends = 1 /\ retErr = CtxErr

\* C3: a search that is neither cancelled nor failed, read to the end,
\* delivers exactly the concatenation of the pages in the order the DC
\* returned them, then closes; the error channel carries no value.
C3_OrderedDelivery ==
    (conPc = "done" /\ ~ctxDone /\ retErr = NoErr) =>
        /\ received = returned
        /\ received = Range(1, Len(received))
        /\ entriesClosed /\ entriesChan = <<>>
        /\ errSends = 0 /\ conErr = NoErr
        /\ (Len(requests) = 1 /\ Len(returned) = PageSize =>
                Len(received) = PageSize)

C3_Witness ==
    /\ conPc = "done" /\ ~ctxDone /\ retErr = NoErr
    /\ Len(requests) >= 2
    /\ Len(received) > PageSize

\* C4 (as stated): after a cancellation at most ChanCap + PageSize - 1
\* entries are placed, no further page is requested, and the error channel
\* carries the cancellation error.
C4_CancelStopsSearch ==
    (handler = "stream" /\ cancelAt.pc \in InLoop) =>
        /\ placed - cancelAt.placed <= ChanCap + PageSize - 1
        /\ Len(requests) = cancelAt.requests
        /\ pc = "done" => (errSends = 1 /\ retErr = CtxErr)

\* C4 (amended): after a cancellation of a paged search at most PageSize
\* (hence at most ChanCap + PageSize - 1) entries are placed; one further
\* page is requested only when the check before the round-trip had already
\* passed; the error channel carries at most one value: the cancellation
\* error when the worker observes the cancellation, the search error when
\* that round-trip fails, none when the last page is pushed completely.
C4_CancelBounded ==
    (handler = "stream" /\ cancelAt.pc \in InLoop) =>
        /\ supportPaging =>
              /\ placed - cancelAt.placed <= PageSize
              /\ placed - cancelAt.placed <= ChanCap + PageSize - 1
        /\ Len(requests) - cancelAt.requests
              <= (IF cancelAt.pc = "search" THEN 1 ELSE 0)
        /\ pc = "done" =>
              /\ errSends = (IF retErr = NoErr THEN 0 ELSE 1)
              /\ \/ retErr = CtxErr
                 \/ /\ retErr.kind = "search"
                    /\ cancelAt.pc = "search"
                 \/ /\ retErr = NoErr
                    /\ ~supportPaging \/ ~respCtrl \/ respCookie = 0
                    /\ idx = Len(page) \/ page = <<>>

C4_Witness ==
    /\ cancelAt.pc = "push"
    /\ supportPaging
    /\ placed > cancelAt.placed
    /\ pc = "done" /\ retErr = CtxErr /\ errSends = 1

\* C12: without paging support a search makes one round-trip, with no
\* paging control in the request, delivers the entries of that response,
\* sends no abandon request, and ends without error unless the round-trip
\* failed or the caller cancelled.
C12_NoPagingOneRoundTrip ==
    ~supportPaging =>
        /\ Len(requests) <= 1
        /\ \A i \in 1..Len(requests) : ~requests[i].paging
        /\ abandons = <<>>
        /\ (pc \in {"done", "returned"} /\ retErr = NoErr) =>
              /\ Len(requests) = 1
              /\ returned = Range(1, srvTotal)
              /\ handler = "collect" => collected = returned
              /\ (handler = "stream" /\ conPc = "done") => received = returned
        /\ (pc \in {"done", "returned"} /\ ~ctxDone /\ retErr.kind # "search")
              => retErr = NoErr

C12_Witness ==
    /\ ~supportPaging
    /\ handler = "stream"
    /\ conPc = "done"
    /\ retErr = NoErr
    /\ Len(requests) = 1
    /\ Len(received) > PageSize

\* ------------------------------------------------------------ the queries
\* Maximum LDAP filter length the validator accepts.
MaxFilterLength == 4096

\* defaultQuickQueries: the standard object queries. A filter is written
\* as its pieces in order: each parenthesis and each brace is a piece of
\* its own, and the text between them is cut after each ":=".
defaultQuickQueries ==
    [ users |->
        [Filter |->
            <<"(", "objectClass=user", ")">>,
         Attributes |->
            <<"sAMAccountName", "userPrincipalName", "userAccountControl",
              "msDS-AllowedToDelegateTo",
              "msDS-AllowedToActOnBehalfOfOtherIdentity">>],
      computers |->
        [Filter |->
            <<"(", "objectClass=computer", ")">>,
         Attributes |->
            <<"name", "operatingSystem", "dNSHostName", "userAccountControl",
              "msDS-AllowedToDelegateTo",
              "msDS-AllowedToActOnBehalfOfOtherIdentity">>],
      dc |->
        [Filter |->
            <<"(", "&", "(", "objectClass=computer", ")", "(",
              "userAccountControl:1.2.840.113556.1.4.803:=", "532480", ")",
              ")">>,
         Attributes |->
            <<"name", "operatingSystem", "dNSHostName", "userAccountControl",
              "msDS-AllowedToDelegateTo",
              "msDS-AllowedToActOnBehalfOfOtherIdentity">>],
      ou |->
        [Filter |->
            <<"(", "objectClass=organizationalUnit", ")">>,
         Attributes |->
            <<"name", "distinguishedName">>],
      spn |->
        [Filter |->
            <<"(", "&", "(", "servicePrincipalName=*", ")", ")">>,
         Attributes |->
            <<"dn", "cn", "servicePrincipalName">>],
      adminSDHolder |->
        [Filter |->
            <<"(", "&", "(", "objectCategory=person", ")", "(",
              "sAMAccountName=*", ")", "(", "adminCount=1", ")", ")">>,
         Attributes |->
            <<"cn", "sAMAccountName">>],
      group |->
        [Filter |->
            <<"(", "&", "(", "objectCategory=group", ")", "(", "adminCount=1",
              ")", ")">>,
         Attributes |->
            <<"name", "member", "memberOf", "groupType">>],
      disabled |->
        [Filter |->
            <<"(", "userAccountControl:1.2.840.113556.1.4.803:=", "2", ")">>,
         Attributes |->
            <<"dn", "sAMAccountName", "userPrincipalName",
              "lastLogonTimestamp">>],
      admin |->
        [Filter |->
            <<"(", "&", "(", "|", "(", "&", "(", "objectCategory=person", ")",
              "(", "objectClass=user", ")", ")", "(", "objectCategory=group",
              ")", ")", "(", "adminCount=1", ")", ")">>,
         Attributes |->
            <<"dn", "cn", "member">>],
      enterprise |->
        [Filter |->
            <<"(", "sAMAccountName=Enterprise Admins", ")">>,
         Attributes |->
            <<"dn", "cn", "member">>],
      trustDomain |->
        [Filter |->
            <<"(", "objectClass=trustedDomain", ")">>,
         Attributes |->
            <<"name", "trustDirection", "trustType", "trustAttributes",
              "flatName", "distinguishedName">>],
      trustattributes |->
        [Filter |->
            <<"(", "&", "(", "objectClass=trustedDomain", ")", "(",
              "trustAttributes=*", ")", ")">>,
         Attributes |->
            <<"name", "trustAttributes", "trustDirection", "trustType">>],
      sidhistory |->
        [Filter |->
            <<"(", "sIDHistory=*", ")">>,
         Attributes |->
            <<"dn", "cn", "sAMAccountName", "sIDHistory">>],
      gpo |->
        [Filter |->
            <<"(", "objectClass=groupPolicyContainer", ")">>,
         Attributes |->
            <<"name", "displayName", "versionNumber", "gPCFileSysPath",
              "whenChanged">>],
      gpomachine |->
        [Filter |->
            <<"(", "&", "(", "objectCategory=groupPolicyContainer", ")", "(",
              "gPCMachineExtensionNames=*", ")", ")">>,
         Attributes |->
            <<"name", "displayName", "gPCMachineExtensionNames">>],
      gpouser |->
        [Filter |->
            <<"(", "&", "(", "objectCategory=groupPolicyContainer", ")", "(",
              "gPCUserExtensionNames=*", ")", ")">>,
         Attributes |->
            <<"name", "displayName", "gPCUserExtensionNames">>],
      asreproast |->
        [Filter |->
            <<"(", "&", "(", "userAccountControl:1.2.840.113556.1.4.803:=",
              "4194304", ")", "(", "!", "(",
              "userAccountControl:1.2.840.113556.1.4.803:=", "2", ")", ")",
              "(", "!", "(", "objectCategory=computer", ")", ")", ")">>,
         Attributes |->
            <<"dn", "sAMAccountName">>],
      kerberoasting |->
        [Filter |->
            <<"(", "&", "(", "!", "(",
              "userAccountControl:1.2.840.113556.1.4.803:=", "2", ")", ")",
              "(", "samAccountType=805306368", ")", "(",
              "servicePrincipalName=*", ")", "(", "!sAMAccountName=krbtgt",
              ")", ")">>,
         Attributes |->
            <<"dn", "sAMAccountName", "servicePrincipalName">>],
      delegate |->
        [Filter |->
            <<"(", "msDS-AllowedToDelegateTo=*", ")">>,
         Attributes |->
            <<"dn", "cn", "sAMAccountName", "msDS-AllowedToDelegateTo">>],
      unconstraineddelegate |->
        [Filter |->
            <<"(", "userAccountControl:1.2.840.113556.1.4.803:=", "524288",
              ")">>,
         Attributes |->
            <<"dn", "cn", "sAMAccountName", "userAccountControl",
              "objectClass">>],
      constraineddelegate |->
        [Filter |->
            <<"(", "msDS-AllowedToDelegateTo=*", ")">>,
         Attributes |->
            <<"dn", "cn", "sAMAccountName", "msDS-AllowedToDelegateTo",
              "objectClass">>],
      resourceconstraineddelegate |->
        [Filter |->
            <<"(", "msDS-AllowedToActOnBehalfOfOtherIdentity=*", ")">>,
         Attributes |->
            <<"dn", "cn", "sAMAccountName",
              "msDS-AllowedToActOnBehalfOfOtherIdentity", "objectClass">>],
      caComputer |->
        [Filter |->
            <<"(", "&", "(", "objectCategory=pKIEnrollmentService", ")", ")">>,
         Attributes |->
            <<"cn">>],
      esc1 |->
        [Filter |->
            <<"(", "&", "(", "objectClass=pkicertificatetemplate", ")", "(",
              "!", "(", "mspki-enrollment-flag:1.2.840.113556.1.4.804:=", "2",
              ")", ")", "(", "|", "(", "mspki-ra-signature=0", ")", "(", "!",
              "(", "mspki-ra-signature=*", ")", ")", ")", "(", "|", "(",
              "pkiextendedkeyusage=1.3.6.1.4.1.311.20.2.2", ")", "(",
              "pkiextendedkeyusage=1.3.6.1.5.5.7.3.2", ")", "(",
              "pkiextendedkeyusage=1.3.6.1.5.2.3.4", ")", "(",
              "pkiextendedkeyusage=2.5.29.37.0", ")", "(", "!", "(",
              "pkiextendedkeyusage=*", ")", ")", ")", "(",
              "mspki-certificate-name-flag:1.2.840.113556.1.4.804:=", "1",
              ")", "(", "!", "(", "cn=OfflineRouter", ")", ")", "(", "!", "(",
              "cn=CA", ")", ")", "(", "!", "(", "cn=SubCA", ")", ")", ")">>,
         Attributes |->
            <<"cn">>],
      esc2 |->
        [Filter |->
            <<"(", "&", "(", "objectClass=pkicertificatetemplate", ")", "(",
              "!", "(", "mspki-enrollment-flag:1.2.840.113556.1.4.804:=", "2",
              ")", ")", "(", "|", "(", "mspki-ra-signature=0", ")", "(", "!",
              "(", "mspki-ra-signature=*", ")", ")", ")", "(", "|", "(",
              "pkiextendedkeyusage=2.5.29.37.0", ")", "(", "!", "(",
              "pkiextendedkeyusage=*", ")", ")", ")", "(", "!", "(", "cn=CA",
              ")", ")", "(", "!", "(", "cn=SubCA", ")", ")", ")">>,
         Attributes |->
            <<"cn">>],
      machineAccountQuota |->
        [Filter |->
            <<"(", "objectClass=domain", ")">>,
         Attributes |->
            <<"ms-DS-MachineAccountQuota">>] ]

\* defaultPermissionQueries: the permission queries.
defaultPermissionQueries ==
    [ permissions |->
        [Filter |->
            <<"(", "&", "(", "objectClass=user", ")", "(", "sAMAccountName=*",
              ")", ")">>,
         Attributes |->
            <<"sAMAccountName", "userPrincipalName", "memberOf", "adminCount",
              "userAccountControl">>],
      highpriv |->
        [Filter |->
            <<"(", "&", "(", "objectClass=user", ")", "(", "adminCount=1",
              ")", ")">>,
         Attributes |->
            <<"sAMAccountName", "userPrincipalName", "memberOf", "adminCount",
              "userAccountControl">>],
      domainadmins |->
        [Filter |->
            <<"(", "&", "(", "objectClass=group", ")", "(",
              "sAMAccountName=Domain Admins", ")", ")">>,
         Attributes |->
            <<"member", "distinguishedName", "groupType">>],
      enterpriseadmins |->
        [Filter |->
            <<"(", "&", "(", "objectClass=group", ")", "(",
              "sAMAccountName=Enterprise Admins", ")", ")">>,
         Attributes |->
            <<"member", "distinguishedName", "groupType">>],
      schemaadmins |->
        [Filter |->
            <<"(", "&", "(", "objectClass=group", ")", "(",
              "sAMAccountName=Schema Admins", ")", ")">>,
         Attributes |->
            <<"member", "distinguishedName", "groupType">>],
      adminholders |->
        [Filter |->
            <<"(", "&", "(", "objectCategory=person", ")", "(",
              "sAMAccountName=*", ")", "(", "adminCount=1", ")", ")">>,
         Attributes |->
            <<"sAMAccountName", "distinguishedName", "memberOf",
              "adminCount">>],
      groupnested |->
        [Filter |->
            <<"(", "&", "(", "objectClass=group", ")", "(", "member=*", ")",
              ")">>,
         Attributes |->
            <<"cn", "member", "distinguishedName", "groupType">>],
      sensitivegroups |->
        [Filter |->
            <<"(", "&", "(", "objectClass=group", ")", "(", "|", "(",
              "sAMAccountName=Domain Admins", ")", "(",
              "sAMAccountName=Enterprise Admins", ")", "(",
              "sAMAccountName=Schema Admins", ")", "(",
              "sAMAccountName=Administrators", ")", "(",
              "sAMAccountName=Domain Controllers", ")", "(",
              "sAMAccountName=Enterprise Key Admins", ")", "(",
              "sAMAccountName=Domain Key Admins", ")", ")", ")">>,
         Attributes |->
            <<"sAMAccountName", "member", "distinguishedName">>],
      managedby |->
        [Filter |->
            <<"(", "&", "(", "managedBy=*", ")", ")">>,
         Attributes |->
            <<"cn", "distinguishedName", "managedBy">>],
      acl |->
        [Filter |->
            <<"(", "&", "(", "objectClass=*", ")", "(",
              "nTSecurityDescriptor=*", ")", ")">>,
         Attributes |->
            <<"cn", "distinguishedName", "nTSecurityDescriptor">>] ]

\* DomainSpecificQueries: the queries that need the {domain} parameter.
DomainSpecificQueries ==
    [ dcclonerights |->
        [Filter |->
            <<"(", "&", "(", "objectClass=user", ")", "(", "|", "(",
              "userAccountControl:1.2.840.113556.1.4.803:=", "128", ")", "(",
              "memberOf:1.2.840.113556.1.4.1941:=",
              "CN=Cloneable Domain Controllers,CN=Users,", "{", "domain", "}",
              ")", ")", ")">>,
         Attributes |->
            <<"dn", "cn", "sAMAccountName", "memberOf">>],
      dcsync |->
        [Filter |->
            <<"(", "&", "(", "objectClass=user", ")", "(", "|", "(",
              "memberOf:1.2.840.113556.1.4.1941:=",
              "CN=Domain Admins,CN=Users,", "{", "domain", "}", ")", "(",
              "memberOf:1.2.840.113556.1.4.1941:=",
              "CN=Enterprise Admins,CN=Users,", "{", "domain", "}", ")", "(",
              "memberOf:1.2.840.113556.1.4.1941:=",
              "CN=Administrators,CN=Builtin,", "{", "domain", "}", ")", ")",
              ")">>,
         Attributes |->
            <<"dn", "cn", "sAMAccountName", "memberOf">>] ]

\* Fault: init registers the users query with its closing parenthesis lost.
initUnclosed ==
    [(defaultPermissionQueries @@ defaultQuickQueries) EXCEPT
        !.users.Filter = SubSeq(@, 1, Len(@) - 1)]

\* init: the registry after package initialisation. Register stores each
\* quick query, then each permission query, under its name.
init == defaultPermissionQueries @@ defaultQuickQueries

\* The zero Query a failed lookup returns.
NoQuery == [Filter |-> <<>>, Attributes |-> <<>>]

\* Get: the query registered under a name and whether there is one.
Get(name) ==
    IF name \in DOMAIN init THEN [q |-> init[name], ok |-> TRUE]
    ELSE [q |-> NoQuery, ok |-> FALSE]

RECURSIVE FilterLen(_)
\* len(filter): the lengths of the pieces added up.
FilterLen(f) == IF f = <<>> THEN 0 ELSE Len(Head(f)) + FilterLen(Tail(f))

\* strings.Count(filter, c) for a parenthesis c.
Count(f, c) == Cardinality({i \in DOMAIN f : f[i] = c})

\* ValidateFilter: the error it returns, "nil" for none.
ValidateFilter(f) ==
    IF f = <<>> THEN "filter cannot be empty"
    ELSE IF FilterLen(f) > MaxFilterLength
        THEN "filter exceeds maximum length"
    ELSE IF Count(f, "(") # Count(f, ")")
        THEN "filter contains unbalanced parentheses"
    ELSE IF Head(f) # "(" THEN "filter must start with '('"
    ELSE IF f[Len(f)] # ")" THEN "filter must end with ')'"
    ELSE "nil"

\* "{" + key + "}" as pieces.
placeholder(key) == <<"{", key, "}">>

RECURSIVE ReplaceAll(_, _, _)
\* strings.ReplaceAll: every non-overlapping occurrence of old, found from
\* the left, is replaced by new.
ReplaceAll(s, old, new) ==
    IF Len(s) < Len(old) THEN s
    ELSE IF SubSeq(s, 1, Len(old)) = old
        THEN new \o ReplaceAll(SubSeq(s, Len(old) + 1, Len(s)), old, new)
    ELSE <<Head(s)>> \o ReplaceAll(Tail(s), old, new)

RECURSIVE replaceParams(_, _, _)
\* replaceParams: one ReplaceAll over the whole current result for each
\* parameter, in the order the range over the params map yields the keys.
replaceParams(filter, params, order) ==
    IF order = <<>> THEN filter
    ELSE replaceParams(
             ReplaceAll(filter, placeholder(Head(order)), params[Head(order)]),
             params, Tail(order))

\* Build: the filter with its parameters replaced, the attributes copied.
Build(q, params, order) ==
    [Filter |-> replaceParams(q.Filter, params, order),
     Attributes |-> q.Attributes]

\* The orders in which a range over a map with the keys S can yield them.
Orders(S) ==
    {o \in [1..Cardinality(S) -> S] : \A i, j \in DOMAIN o : i # j => o[i] # o[j]}

\* Keys and values given to WithParam; a value may hold a placeholder.
ParamKeys == {"a", "b", "domain"}

ParamValues ==
    {<<"x">>, <<"{", "a", "}">>, <<"{", "b", "}">>,
     <<"DC=corp,DC=example,DC=com">>}

BuildParams == UNION {[K -> ParamValues] : K \in SUBSET ParamKeys}

\* Base queries built from: dcsync and two small templates.
BuildQueries ==
    {DomainSpecificQueries.dcsync,
     [Filter |-> <<"(", "k=", "{", "a", "}", "{", "b", "}", ")">>,
      Attributes |-> <<"cn">>],
     [Filter |-> <<"(", "k=", "{", "b", "}", "{", "c", "}", "{", "a", ")">>,
      Attributes |-> <<"cn">>]}

\* Names looked up: the registered ones, the domain-specific ones and two
\* that no table holds.
QueryNames ==
    DOMAIN init \cup DOMAIN DomainSpecificQueries
        \cup {"NonExistentQuery", ""}

QueriesInit ==
    /\ Idle
    /\ \/ /\ fn \in {"Get", "ValidateFilter"}
          /\ arg \in [name : QueryNames]
       \/ /\ fn = "Build"
          /\ arg \in [q : BuildQueries, params : BuildParams]
    /\ out = <<>>
    /\ printed = <<>>

\* A caller looks a query up by name.
GetQuery ==
    /\ fn = "Get"
    /\ Returns(Get(arg.name))

\* A caller validates the filter of the query it looked up.
ValidateQuery ==
    /\ fn = "ValidateFilter"
    /\ LET f == Get(arg.name).q.Filter IN
         Returns([filter |-> f, err |-> ValidateFilter(f)])

\* A caller builds a query from a base query and its parameters.
BuildQuery ==
    /\ fn = "Build"
    /\ \E order \in Orders(DOMAIN arg.params) :
         Returns(Build(arg.q, arg.params, order))

QueriesNext == GetQuery \/ ValidateQuery \/ BuildQuery

SpecQueries == QueriesInit /\ [][QueriesNext]_vars

\* ---------------------------------------------------------------- times
\* A 64-bit count of 100 ns ticks, or of nanoseconds, is written as whole
\* days d, seconds of the day s and the rest k below one second.
FT(days, secs, rest) == [d |-> days, s |-> secs, k |-> rest]

\* a < b on two such counts.
Less(a, b) ==
    \/ a.d < b.d
    \/ a.d = b.d /\ a.s < b.s
    \/ a.d = b.d /\ a.s = b.s /\ a.k < b.k

\* a - b, the rest counted in units of which perSec make a second.
Minus(a, b, perSec) ==
    LET k == a.k - b.k
        s == a.s - b.s - (IF k < 0 THEN 1 ELSE 0)
        d == a.d - b.d - (IF s < 0 THEN 1 ELSE 0)
    IN FT(d, s % 86400, k % perSec)

\* FileTimeToUnixEpochDiff = 1164447360000000000 ticks: 1347740 days.
FileTimeToUnixEpochDiff == FT(1347740, 0, 0)

\* fileTimeToUnixEpochNs = 116444736000000000 ticks of AccountExpires:
\* 134774 days, 1601-01-01 to 1970-01-01.
fileTimeToUnixEpochNs == FT(134774, 0, 0)

\* The largest int64, 9223372036854775807, as ticks.
MaxInt64 == FT(10675199, 10085, 4775807)

RECURSIVE wrap64(_)
\* A nanosecond count computed in int64: 2^64 ns are taken off until the
\* count is below 2^63 ns.
wrap64(v) ==
    IF Less(v, FT(106751, 85636, 854775808)) THEN v
    ELSE wrap64(Minus(v, FT(213503, 84873, 709551616), 1000000000))

\* time.Unix(...).UTC().Format(time.DateTime): the civil date of the day
\* number counted from 1970-01-01 and the time of day.
DateTime(days, secs) ==
    LET z == days + 719468
        era == z \div 146097
        doe == z - era * 146097
        yoe == (doe - doe \div 1460 + doe \div 36524 - doe \div 146096)
                   \div 365
        doy == doe - (365 * yoe + yoe \div 4 - yoe \div 100)
        mp == (5 * doy + 2) \div 153
        m == IF mp < 10 THEN mp + 3 ELSE mp - 9
    IN [year |-> yoe + era * 400 + (IF m <= 2 THEN 1 ELSE 0),
        month |-> m,
        day |-> doy - (153 * mp + 2) \div 5 + 1,
        hour |-> secs \div 3600,
        minute |-> (secs % 3600) \div 60,
        second |-> secs % 60]

\* ParseFileTimeToTime: raw.text is "", a text that is no number ("x"), or
\* the digits of the number of ticks raw.n.
ParseFileTimeToTime(raw) ==
    IF raw.text = "" THEN [time |-> <<>>, err |-> "empty fileTime string"]
    ELSE IF raw.text = "x" THEN [time |-> <<>>, err |-> "failed to parse fileTime"]
    ELSE IF raw.n = FT(0, 0, 0) THEN [time |-> <<>>, err |-> "zero value"]
    ELSE IF ~Less(raw.n, FileTimeToUnixEpochDiff)
        THEN LET t == Minus(raw.n, FileTimeToUnixEpochDiff, 10000000)
                 unixNano == wrap64(FT(t.d, t.s, t.k * 100))
             IN [time |-> DateTime(unixNano.d, unixNano.s), err |-> "nil"]
    ELSE [time |-> <<>>, err |-> "invalid filetime value"]

\* AccountExpires of the attribute value raw: the text it renders ("" for
\* none, "never", or "raw,time" given as its time) and the error.
AccountExpires(raw) ==
    IF raw.text = "" THEN [text |-> "", time |-> <<>>, err |-> "nil"]
    ELSE IF raw.text = "x"
        THEN [text |-> "", time |-> <<>>,
              err |-> "invalid accountExpires value"]
    ELSE IF raw.n = FT(0, 0, 0) \/ raw.n = MaxInt64
        THEN [text |-> "9223372036854775807, never", time |-> <<>>,
              err |-> "nil"]
    ELSE LET t == Minus(raw.n, fileTimeToUnixEpochNs, 10000000)
             \* (ft - epoch) / 10000000 rounds towards zero
             unixTime == IF t.d < 0 /\ t.k > 0
                             THEN IF t.s = 86399 THEN FT(t.d + 1, 0, 0)
                                  ELSE FT(t.d, t.s + 1, 0)
                         ELSE t
         IN IF unixTime.d < 0
                THEN [text |-> "", time |-> <<>>,
                      err |-> "accountExpires value out of range"]
            ELSE [text |-> "raw,time",
                  time |-> DateTime(unixTime.d, unixTime.s), err |-> "nil"]

\* FILETIME values tried.
FileTimes ==
    {FT(0, 0, 0), MaxInt64}
        \cup {FT(d, s, k) :
                d \in {0, 134773, 134774, 134775, 154497, 154556, 1347739,
                       1347740, 1367463, 1454492},
                s \in {0, 43200, 86399}, k \in {0, 1, 9999999}}

TimesInit ==
    /\ Idle
    /\ fn \in {"ParseFileTimeToTime", "AccountExpires"}
    /\ arg \in [text : {"", "x"}, n : {FT(0, 0, 0)}]
                 \cup [text : {"digits"}, n : FileTimes]
    /\ out = <<>>
    /\ printed = <<>>

\* A formatter converts a FILETIME attribute value.
ParseFileTime ==
    /\ fn = "ParseFileTimeToTime"
    /\ Returns(ParseFileTimeToTime(arg))

\* A formatter converts the accountExpires attribute value.
ParseAccountExpires ==
    /\ fn = "AccountExpires"
    /\ Returns(AccountExpires(arg))

TimesNext == ParseFileTime \/ ParseAccountExpires

SpecTimes == TimesInit /\ [][TimesNext]_vars

\* ------------------------------------------------------ userAccountControl
\* UserAccountControl flags.
UF_ACCOUNTDISABLE == 2
UF_NORMAL_ACCOUNT == 512
UF_INTERDOMAIN_TRUST_ACCOUNT == 2048
UF_WORKSTATION_TRUST_ACCOUNT == 4096
UF_SERVER_TRUST_ACCOUNT == 8192
UF_TRUSTED_FOR_DELEGATION == 524288
UF_PASSWORD_EXPIRED == 8388608
\* Combinations: the flags are distinct bits, so | adds them.
UF_WORKSTATION_OR_SERVER ==
    UF_WORKSTATION_TRUST_ACCOUNT + UF_SERVER_TRUST_ACCOUNT
UF_DOMAIN_CONTROLLER == UF_SERVER_TRUST_ACCOUNT + UF_TRUSTED_FOR_DELEGATION

\* The decimal digit characters, "0" first.
DigitChars == <<"0", "1", "2", "3", "4", "5", "6", "7", "8", "9">>

RECURSIVE ParseUint(_)
\* strconv.ParseUint(s, 10, 32) of a text given as its characters: -1 for
\* a syntax error, otherwise the number (texts here stay below 2^32).
ParseUint(s) ==
    IF s = <<>> THEN -1
    ELSE LET last == s[Len(s)]
             digit == CHOOSE i \in 0..9 : DigitChars[i + 1] = last
         IN IF \A i \in 0..9 : DigitChars[i + 1] # last THEN -1
            ELSE IF Len(s) = 1 THEN digit
            ELSE LET front == ParseUint(SubSeq(s, 1, Len(s) - 1))
                 IN IF front < 0 THEN -1 ELSE 10 * front + digit

RECURSIVE Decimal(_)
\* The characters "%d" prints for a number.
Decimal(n) ==
    IF n < 10 THEN <<DigitChars[n + 1]>>
    ELSE Decimal(n \div 10) \o <<DigitChars[(n % 10) + 1]>>

\* Fault: the arm for a disabled normal account is missing.
ParseUserAccountControlNoDisabled(uacStr) ==
    LET uac == ParseUint(uacStr) IN
      IF uac < 0
          THEN [n |-> <<>>, role |-> "",
                err |-> "failed to parse userAccountControl"]
      ELSE [n |-> Decimal(uac),
            role |->
              CASE uac = UF_DOMAIN_CONTROLLER -> "Domain Controller"
                [] uac = UF_WORKSTATION_OR_SERVER -> "Workstation / Server"
                [] uac = UF_INTERDOMAIN_TRUST_ACCOUNT + UF_PASSWORD_EXPIRED ->
                       "Krbtgt (Expired)"
                [] uac = UF_INTERDOMAIN_TRUST_ACCOUNT -> "Krbtgt"
                [] uac = UF_NORMAL_ACCOUNT -> "User"
                [] OTHER -> "Unknown",
            err |-> "nil"]

\* ParseUserAccountControl: the text "<n>, <role>" as its number n and its
\* role, and the error.
ParseUserAccountControl(uacStr) ==
    LET uac == ParseUint(uacStr) IN
      IF uac < 0
          THEN [n |-> <<>>, role |-> "",
                err |-> "failed to parse userAccountControl"]
      ELSE [n |-> Decimal(uac),
            role |->
              CASE uac = UF_DOMAIN_CONTROLLER -> "Domain Controller"
                [] uac = UF_WORKSTATION_OR_SERVER -> "Workstation / Server"
                [] uac = UF_INTERDOMAIN_TRUST_ACCOUNT + UF_PASSWORD_EXPIRED ->
                       "Krbtgt (Expired)"
                [] uac = UF_INTERDOMAIN_TRUST_ACCOUNT -> "Krbtgt"
                [] uac = UF_NORMAL_ACCOUNT + UF_ACCOUNTDISABLE ->
                       "Disabled User"
                [] uac = UF_NORMAL_ACCOUNT -> "User"
                [] OTHER -> "Unknown",
            err |-> "nil"]

\* The older ParseUserAccountControl: it compares with the numbers
\* 0x82000, 0x1000, 0x820, 0x200, 0x10222 and 0x202.
ParseUserAccountControlOlder(uacStr) ==
    LET uac == ParseUint(uacStr) IN
      IF uac < 0
          THEN [n |-> <<>>, role |-> "Unknown",
                err |-> "failed to parse userAccountControl"]
      ELSE [n |-> Decimal(uac),
            role |->
              CASE uac = 532480 -> "Domain Controller"
                [] uac = 4096 -> "Workstation / Server"
                [] uac = 2080 -> "Trust"
                [] uac = 512 -> "User"
                [] uac = 66082 -> "Guest"
                [] uac = 514 -> "Krbtgt"
                [] OTHER -> "Unknown",
            err |-> "nil"]

\* userAccountControl texts tried: numbers as "%d" prints them, one with a
\* leading zero, and texts that are no number.
UacStrings ==
    {Decimal(n) : n \in {0, 2, 16, 32, 128, 512, 514, 544, 546, 2048, 2080, 4096,
                         4128, 65536, 131072, 262144,
                         8192, 12288, 66048, 66050, 66082, 524288, 532480,
                         590336, 8388608, 8390656, 16777216, 67108864}}
        \cup {<<"0", "5", "1", "4">>, <<>>, <<"x">>, <<"-", "1">>,
              <<"5", "1", "4", " ">>}

UacInit ==
    /\ Idle
    /\ fn \in {"ParseUserAccountControl", "ParseUserAccountControlOlder"}
    /\ arg \in UacStrings
    /\ out = <<>>
    /\ printed = <<>>

\* A formatter renders the userAccountControl attribute.
ParseUac ==
    /\ fn = "ParseUserAccountControl"
    /\ Returns(ParseUserAccountControl(arg))

\* The older formatter renders the userAccountControl attribute.
ParseUacOlder ==
    /\ fn = "ParseUserAccountControlOlder"
    /\ Returns(ParseUserAccountControlOlder(arg))

UacNext == ParseUac \/ ParseUacOlder

SpecUac == UacInit /\ [][UacNext]_vars

\* -------------------------------------------------------- report encoders
\* analyze.FormatAttributeValue on an attribute whose raw value is "bad"
\* (it cannot be decoded), "" (empty) or "r".
FormatAttributeValue(attr) ==
    IF attr.raw = "bad" THEN [v |-> "", err |-> TRUE]
    ELSE IF attr.raw = "" THEN [v |-> "", err |-> FALSE]
    ELSE [v |-> "R", err |-> FALSE]

\* The attributes of e that decoded to a non-empty value.
Decoded(e) ==
    {i \in DOMAIN e.attrs :
        LET r == FormatAttributeValue(e.attrs[i]) IN ~r.err /\ r.v # ""}

\* The value formatted for the attribute called name (names are distinct).
ValueOf(e, name) ==
    FormatAttributeValue(
        e.attrs[CHOOSE i \in DOMAIN e.attrs : e.attrs[i].name = name]).v

\* Fault: a failed or empty attribute is stored as the empty string.
formatEntryAttributesKeepsAll(e) ==
    [name \in {e.attrs[i].name : i \in DOMAIN e.attrs} |->
        IF \E i \in Decoded(e) : e.attrs[i].name = name
            THEN ValueOf(e, name) ELSE ""]

\* formatEntryAttributes: the map of the attributes that decoded to a
\* non-empty value; the others are left out.
formatEntryAttributes(e) ==
    [name \in {e.attrs[i].name : i \in Decoded(e)} |-> ValueOf(e, name)]

\* The attribute map of the JSON printer: every attribute is stored, a
\* failed or empty one as the empty string.
jsonAttrMap(e) ==
    [name \in {e.attrs[i].name : i \in DOMAIN e.attrs} |->
        IF \E i \in Decoded(e) : e.attrs[i].name = name
            THEN ValueOf(e, name) ELSE ""]

\* The rows the CSV stream printer writes for an entry: one for each
\* attribute that decoded to a non-empty value, sorted by name.
csvRows(e) ==
    LET attrMap == formatEntryAttributes(e)
        names == DOMAIN attrMap
        attrNames ==
            CHOOSE s \in [1..Cardinality(names) -> names] :
                \A i, j \in DOMAIN s : i < j => s[i] < s[j]
    IN [i \in DOMAIN attrNames |->
           [dn |-> e.dn, name |-> attrNames[i], value |-> attrMap[attrNames[i]]]]

\* Entries on the channel: the nil entry, and entries with up to two
\* attributes of distinct names; a name is given as its place in the
\* sorted order of the names.
StreamEntries ==
    LET attrs == [name : {1, 2}, raw : {"bad", "", "r"}]
    IN {[nil |-> TRUE, dn |-> "", attrs |-> <<>>]}
         \cup {[nil |-> FALSE, dn |-> "dn", attrs |-> a] :
                 a \in {<<>>} \cup {<<x>> : x \in attrs}
                        \cup {<<x, y>> : x, y \in attrs}}

PrintInit ==
    /\ Idle
    /\ fn \in {"textPrinter.StreamPrint", "JSONPrinter.StreamPrint",
               "CSVPrinter.StreamPrint", "bloodHoundPrinter.StreamPrint"}
    /\ arg \in UNION {[1..n -> {e \in StreamEntries :
                                   \A i, j \in DOMAIN e.attrs :
                                       i # j => e.attrs[i].name # e.attrs[j].name}] :
                        n \in 0..MaxStream}
    /\ out = <<>>
    /\ printed = <<>>

\* What a printer did with the next entry of the channel: whether it
\* emitted a record for it, with which attribute map and which rows.
Emits(rec) ==
    /\ Len(out) < Len(arg)
    /\ out' = Append(out, rec)
    /\ UNCHANGED <<streamVars, rcVars, poolVars, sessCloses, fn, arg, printed>>

NextEntry == arg[Len(out) + 1]

Skipped == [emitted |-> FALSE, attrs |-> <<>>, rows |-> <<>>]

\* An entry kept for later: nothing is emitted for it yet.
Collected == [emitted |-> FALSE, attrs |-> <<>>, rows |-> <<>>]

\* The text printer keeps the entry and prints its card.
TextCard ==
    /\ fn = "textPrinter.StreamPrint"
    /\ Emits(IF NextEntry.nil THEN Skipped
             ELSE [emitted |-> TRUE,
                   attrs |-> formatEntryAttributes(NextEntry),
                   rows |-> <<>>])

\* The JSON printer writes the entry.
JsonStreamPrint ==
    /\ fn = "JSONPrinter.StreamPrint"
    /\ Emits(IF NextEntry.nil THEN Skipped
             ELSE [emitted |-> TRUE, attrs |-> jsonAttrMap(NextEntry),
                   rows |-> <<>>])

\* The CSV printer writes the rows of the entry.
CsvStreamPrint ==
    /\ fn = "CSVPrinter.StreamPrint"
    /\ Emits(IF NextEntry.nil THEN Skipped
             ELSE [emitted |-> csvRows(NextEntry) # <<>>,
                   attrs |-> formatEntryAttributes(NextEntry),
                   rows |-> csvRows(NextEntry)])

\* The BloodHound printer keeps the entry, nil or not, for Print.
BhCollect ==
    /\ fn = "bloodHoundPrinter.StreamPrint"
    /\ Emits(Collected)

\* The channel is closed and read to its end: StreamPrint ends with res.
Ends(res) ==
    /\ Len(out) = Len(arg)
    /\ printed = <<>>
    /\ printed' = res
    /\ UNCHANGED <<streamVars, rcVars, poolVars, sessCloses, fn, arg, out>>

\* The number of entries received that are not nil.
NonNil == Cardinality({i \in DOMAIN arg : ~arg[i].nil})

\* The text printer prints the cards of the entries it kept and returns.
TextEnds ==
    /\ fn = "textPrinter.StreamPrint"
    /\ Ends([count |-> NonNil, result |-> "nil"])

\* The JSON printer writes the summary with its count and returns.
JsonEnds ==
    /\ fn = "JSONPrinter.StreamPrint"
    /\ Ends([count |-> Cardinality({i \in DOMAIN out : out[i].emitted}),
             result |-> "nil"])

\* The CSV printer returns; it writes no count.
CsvEnds ==
    /\ fn = "CSVPrinter.StreamPrint"
    /\ Ends([result |-> "nil"])

\* The BloodHound printer calls Print with every entry it kept:
\* autoDetectObjectType reads the attributes of each, which panics on a
\* nil entry; otherwise every entry is converted and counted.
BhPrint ==
    /\ fn = "bloodHoundPrinter.StreamPrint"
    /\ IF \E i \in DOMAIN arg : arg[i].nil
           THEN Ends([result |-> "panic"])
       ELSE Ends([count |-> Len(arg), result |-> "nil"])

PrintNext ==
    \/ TextCard \/ JsonStreamPrint \/ CsvStreamPrint \/ BhCollect
    \/ TextEnds \/ JsonEnds \/ CsvEnds \/ BhPrint

SpecPrint == PrintInit /\ [][PrintNext]_vars

\* ------------------------------------------------ ResilientClient.Search
\* The retry loop of ResilientClient.Search on its own, over an ldapClient
\* whose Search runs executeSearch with the collecting handler.
SearchRetryInit == ResilientStart({"search"}, MaxSearchAttempts)

SearchRetryNext ==
    \/ RcLoop
    \/ RcSleep
    \/ RcSleepCancelled
    \/ RcCall
    \/ RcSearchReturned
    \/ RcExhausted
    \/ CheckCancel
    \/ SearchFails
    \/ SearchSucceeds
    \/ NextPage
    \/ SearchReturns
    \/ CancelCtx

SpecRetrySearch == SearchRetryInit /\ [][SearchRetryNext]_vars

\* ------------------------------------------------------------- scheduling
\* The Go scheduler runs every goroutine that can take a step: the wrapper's
\* goroutine and the worker of the underlying StreamSearch keep taking steps
\* while one is possible (each round-trip returns).  Nothing is assumed
\* about the caller: it may stop reading, and it may or may not cancel.
SpecResilientFair ==
    /\ ResilientInit
    /\ [][ResilientNext]_vars
    /\ WF_vars(Wrapper)
    /\ WF_vars(Worker)

\* ----------------------------------------------------------- paged search
\* The loop of PoolingClient.searchWithConn, one round-trip per step.  arg is
\* the call (the entries the DC holds and the configured size limit); out
\* holds the cookie of the paging control of searchReq, the requests sent,
\* the responses received, allEntries and the state of the call.
SearchWithConnInit ==
    /\ Idle
    /\ fn = "PoolingClient.searchWithConn"
    /\ arg \in [total : 0..MaxEntries, sizeLimit : 0..1]
    /\ out = [cookie |-> 0, requests |-> <<>>, responses |-> <<>>,
              allEntries |-> <<>>, ret |-> "running"]
    /\ printed = <<>>

\* conn.Search(searchReq) fails: return nil and the wrapped error.
SearchWithConnFails ==
    /\ fn = "PoolingClient.searchWithConn"
    /\ out.ret = "running"
    /\ out' = [out EXCEPT
                 !.requests = Append(@, searchWithConnRequest(arg.sizeLimit,
                                                              out.cookie)),
                 !.allEntries = <<>>,
                 !.ret = "ldap search failed"]
    /\ UNCHANGED <<streamVars, rcVars, poolVars, sessCloses, fn, arg, printed>>

\* conn.Search(searchReq) returns a page: append its entries, stop when the
\* response has no paging control or an empty cookie, otherwise SetCookie.
SearchWithConnPage ==
    /\ fn = "PoolingClient.searchWithConn"
    /\ out.ret = "running"
    /\ \E ctrl \in BOOLEAN :
         LET entries == Range(out.cookie + 1,
                              Min(out.cookie + PageSize, arg.total))
             ck == IF ctrl /\ out.cookie + PageSize < arg.total
                     THEN out.cookie + PageSize ELSE 0
         IN out' = [cookie |-> IF ctrl /\ ck # 0 THEN ck ELSE out.cookie,
                    requests |-> Append(out.requests,
                        searchWithConnRequest(arg.sizeLimit, out.cookie)),
                    responses |-> Append(out.responses,
                                         [ctrl |-> ctrl, cookie |-> ck]),
                    allEntries |-> out.allEntries \o entries,
                    ret |-> IF ctrl /\ ck # 0 THEN "running" ELSE "nil"]
    /\ UNCHANGED <<streamVars, rcVars, poolVars, sessCloses, fn, arg, printed>>

\* A paged search of either client: a run of ldapClient.executeSearch with
\* its consumer, or a call of PoolingClient.searchWithConn.
PagedInit ==
    \/ Init
    \/ SearchWithConnInit

PagedNext ==
    \/ Next
    \/ SearchWithConnPage
    \/ SearchWithConnFails

SpecPaged == PagedInit /\ [][PagedNext]_vars

\* ------------------------------------------------------- TLS negotiation
\* dialWithTLSNegotiation tries the protocol versions of versionsToTry, one
\* connection attempt per loop iteration.  arg is the call (the security
\* mode and the caller's base TLS config, whose MinVersion and MaxVersion
\* securitySettings leaves unset, 0); out.tried is the log of the attempts
\* made so far and out.ret the state of the call.

VersionTLS13 == 772
VersionTLS12 == 771
VersionTLS11 == 770
VersionTLS10 == 769

versionsToTry == <<VersionTLS13, VersionTLS12, VersionTLS11, VersionTLS10>>

\* What ldap.DialURL and conn.StartTLS can fail with (lowercased texts).
DialErrTexts == {"remote error: tls: handshake failure",
                 "tls: protocol version not supported",
                 "read: connection reset by peer",
                 "i/o timeout", "connect: connection refused"}

\* The substrings isTLSError looks for that occur in an error text.
tlsErrorStrings(text) ==
    CASE text = "remote error: tls: handshake failure" ->
             {"tls", "handshake failure"}
      [] text = "tls: protocol version not supported" ->
             {"tls", "protocol version"}
      [] text = "read: connection reset by peer" ->
             {"connection reset by peer"}
      [] OTHER -> {}

isTLSError(text) ==
    /\ text # "nil"
    /\ tlsErrorStrings(text) \cap
         {"tls", "handshake failure", "protocol version",
          "unsupported protocol", "no supported versions",
          "connection reset by peer"} # {}

\* The TLS config of attempt i: a clone of the base config with MinVersion
\* set to the candidate and, for every candidate but the last, MaxVersion too.
tlsConfMinOnly(base, i) ==
    [min |-> versionsToTry[i], max |-> base.max]

tlsConf(base, i) ==
    [min |-> versionsToTry[i],
     max |-> IF i < Len(versionsToTry) THEN versionsToTry[i] ELSE base.max]

StartTLSModes == {"SecurityStartTLS", "SecurityInsecureStartTLS"}

DialInit ==
    /\ Idle
    /\ fn = "dialWithTLSNegotiation"
    /\ arg \in [security : {"SecurityTLS", "SecurityStartTLS",
                            "SecurityInsecureTLS", "SecurityInsecureStartTLS"},
                base : {[min |-> 0, max |-> 0]}]
    /\ out = [tried |-> <<>>, ret |-> "running"]
    /\ printed = <<>>

\* One iteration of the loop; a failure of the last candidate, or a break,
\* falls through to the return of the wrapped lastErr.
Attempt(dial, startTLS, continue) ==
    LET i == Len(out.tried) + 1
        conf == tlsConf(arg.base, i)
    IN /\ fn = "dialWithTLSNegotiation"
       /\ out.ret = "running"
       /\ i <= Len(versionsToTry)
       /\ out' = [tried |-> Append(out.tried,
                     [version |-> versionsToTry[i], min |-> conf.min,
                      max |-> conf.max, dial |-> dial, startTLS |-> startTLS]),
                  ret |-> IF dial = "nil" /\ startTLS = "nil" THEN "connected"
                          ELSE IF continue /\ i < Len(versionsToTry)
                               THEN "running" ELSE "failed"]
       /\ UNCHANGED <<streamVars, rcVars, poolVars, sessCloses, fn, arg,
                      printed>>

\* DialURL succeeds (and, in the StartTLS modes, conn.StartTLS too).
DialConnects == Attempt("nil", "nil", FALSE)

\* DialURL succeeds and conn.StartTLS fails: the connection is closed and the
\* loop continues, whatever the failure is.
DialStartTLSFails ==
    /\ arg.security \in StartTLSModes
    /\ \E e \in DialErrTexts : Attempt("nil", e, TRUE)

\* DialURL fails: the loop continues on a TLS error and breaks on any other.
DialFails ==
    \E e \in DialErrTexts : Attempt(e, "nil", isTLSError(e))

DialNext == DialConnects \/ DialStartTLSFails \/ DialFails

SpecDial == DialInit /\ [][DialNext]_vars

\* ------------------------------------------------- claims on the wrapper
\* The error the wrapper surfaced to its caller.
Surfaced ==
    IF rcMode = "stream"
      THEN (IF outErrSent # <<>> THEN outErrSent[1] ELSE NoErr)
      ELSE rcResult.err

\* An attempt that ended with an error the classifiers call retryable.
RetryableOutcome(e) ==
    e.kind \notin {"nil", "running"}
      /\ (IsRetryableError(e) \/ isTemporaryError(e))

\* An attempt that ended with an error they do not.
NonRetryableOutcome(e) ==
    e.kind \notin {"nil", "running"}
      /\ ~IsRetryableError(e) /\ ~isTemporaryError(e)

\* C2: at most one value is ever sent on the error channel of
\* ldapClient.StreamSearch and of ResilientClient.StreamSearch, and the
\* capacity-1 channel never holds the sender up.
C2_AtMostOneError ==
    /\ errSends <= 1
    /\ Len(errChan) <= 1
    /\ Len(outErrSent) <= 1
    /\ Len(outErrChan) <= 1
    /\ (pc = "ret" /\ handler = "stream" /\ retErr # NoErr) => errChan = <<>>

C2_Witness ==
    /\ rcMode = "stream"
    /\ rcPc = "done"
    /\ invoked >= 2
    /\ Len(outErrSent) = 1
    /\ errSends = 1

\* C6: the first attempt runs without a sleep, the underlying client is
\* invoked at most maxAttempts times, and when every attempt fails with a
\* retryable error exactly maxAttempts attempts are made, the failure
\* callback (if set) runs once and the surfaced error wraps the last
\* underlying error with the attempt count.
C6_RetryExhaustion ==
    /\ sleeps <= attempt
    /\ invoked <= maxAttempts
    /\ (/\ rcPc = "done"
        /\ ~ctxDone
        /\ Len(attemptErrs) = invoked
        /\ \A i \in 1..Len(attemptErrs) : RetryableOutcome(attemptErrs[i]))
       => /\ invoked = maxAttempts
          /\ Len(onFailureCalls) = (IF onFailureSet THEN 1 ELSE 0)
          /\ Surfaced = AfterAttempts(maxAttempts, attemptErrs[maxAttempts])

\* C7: an attempt that fails with a non-retryable error ends the wrapper at
\* once: no backoff sleep, no reconnect, no further attempt, and that error
\* is surfaced.
C7_NonRetryableStops ==
    LET K == {i \in 1..Len(attemptErrs) : NonRetryableOutcome(attemptErrs[i])}
    IN  (K # {} /\ ~ctxDone) =>
          LET k == CHOOSE i \in K : \A j \in K : i <= j IN
            /\ invoked = k
            /\ sleeps <= k - 1
            /\ reconnects <= k - 1
            /\ rcPc = "done" =>
                  (Surfaced # NoErr /\ Surfaced.text = attemptErrs[k].text)

\* --------------------------------------------------- claims on the pool
\* Connections handed out by Get and not yet given back.
CheckedOut ==
    Cardinality({p \in Procs : cur[p] = 1
                     /\ ppc[p] \in {"holding", "put_select", "ps_search",
                                    "ps_push", "ps_defer"}})

\* Connections held by a goroutine, handed out or not.
InHand == Cardinality({p \in Procs : cur[p] = 1})

\* C5: once a StreamSearch has ended, also one that could not start
\* because pool.Get failed, both channels it returned are closed.
C5_BothChannelsClosed ==
    psEnded => (psEntClosed /\ psErrClosed)

\* C8: the number of live connections, idle in the pool plus checked out,
\* never exceeds the configured maximum.
C8_LiveWithinMax ==
    conns + CheckedOut <= maxSize

\* C9: after Close has returned the idle set is empty, every connection
\* that is still open is in the hands of a goroutine, and every Get called
\* since then has failed at the closed check without creating a connection.
C9_ClosedPoolDrained ==
    closeReturned =>
        /\ conns = 0
        /\ open = InHand
        /\ lateGet # "passed"

C9_Witness ==
    /\ closeReturned
    /\ drained > 0
    /\ lateGet = "failed"
    /\ putIntoClosed

\* C10: no Put places a connection into the idle set once the pool is
\* marked closed, and no Put sends on the closed idle channel.
C10_PutNeverIntoClosed ==
    /\ ~putIntoClosed
    /\ panic # "send on closed channel"

C10_SendOnClosed ==
    panic = "send on closed channel"

C14_SizeLimitCarried ==
    (fn \in {"executeSearch", "searchWithConn"} /\ out # <<>>) =>
        /\ out.sizeLimit = arg.sizeLimit
        /\ out.timeLimit = 0

\* A session configured with a positive size limit sends a request
\* without one.
C14_Witness ==
    /\ fn = "executeSearch" /\ out # <<>>
    /\ arg.sizeLimit > 0
    /\ out.sizeLimit = 0

\* -------------------------------------------------- claims on the queries
\* C15: the filter of every query registered after init has balanced
\* parentheses, starts with '(', ends with ')' and is at most 4096 long.
C15_RegisteredFiltersWellFormed ==
    (fn = "ValidateFilter" /\ out # <<>> /\ arg.name \in DOMAIN init) =>
        LET f == out.filter
            opens(i) == Cardinality({j \in 1..i : f[j] = "("})
            closes(i) == Cardinality({j \in 1..i : f[j] = ")"})
        IN /\ f = init[arg.name].Filter
           /\ out.err = "nil"
           /\ f # <<>> /\ f[1] = "(" /\ f[Len(f)] = ")"
           /\ opens(Len(f)) = closes(Len(f))
           /\ \A i \in 1..Len(f) : closes(i) <= opens(i)
           /\ FilterLen(f) <= 4096

C15_Witness ==
    /\ fn = "ValidateFilter" /\ out # <<>>
    /\ arg.name = "esc1"
    /\ FilterLen(out.filter) > 400
    /\ Count(out.filter, "(") > 20

\* C16: after init, Get succeeds for "dcclonerights", "dcsync" (each with
\* a filter and at least one attribute) and "users", and reports not-found
\* for a name that was never registered.
C16_GetFindsDomainQueries ==
    (fn = "Get" /\ out # <<>>) =>
        /\ arg.name \in {"dcclonerights", "dcsync", "users"} =>
              /\ out.ok
              /\ out.q.Filter # <<>>
              /\ Len(out.q.Attributes) >= 1
        /\ arg.name \in {"NonExistentQuery", ""} => ~out.ok

\* Get does not find a domain-specific query.
C16_Witness ==
    /\ fn = "Get" /\ out # <<>>
    /\ arg.name = "dcsync"
    /\ ~out.ok

\* C17: Build replaces every {key} of a registered parameter in a single
\* left-to-right pass over the base filter, never rescanning inserted
\* text, so the result does not depend on the order of the parameters;
\* placeholders without a parameter stay; dcsync built with
\* {domain} = DC=corp,DC=example,DC=com contains
\* CN=Domain Admins,CN=Users,DC=corp,DC=example,DC=com.
C17_SinglePassSubstitution ==
    (fn = "Build" /\ out # <<>>) =>
        LET f == arg.q.Filter
            ps == arg.params
            isKey(i) == /\ i + 2 <= Len(f)
                        /\ f[i] = "{" /\ f[i + 2] = "}"
                        /\ f[i + 1] \in DOMAIN ps
            \* the pieces of the base filter a single pass replaces
            inKey(i) == \E j \in {i - 2, i - 1, i} : j >= 1 /\ isKey(j)
            piece(i) == IF isKey(i) THEN ps[f[i + 1]]
                        ELSE IF inKey(i) THEN <<>> ELSE <<f[i]>>
            pass[i \in 0..Len(f)] ==
                IF i = 0 THEN <<>> ELSE pass[i - 1] \o piece(i)
            r == out.Filter
        IN /\ r = pass[Len(f)]
           /\ ( /\ arg.q = DomainSpecificQueries.dcsync
                /\ "domain" \in DOMAIN ps
                /\ ps["domain"] = <<"DC=corp,DC=example,DC=com">> ) =>
                  \E i \in 1..(Len(r) - 1) :
                      /\ r[i] = "CN=Domain Admins,CN=Users,"
                      /\ r[i + 1] = "DC=corp,DC=example,DC=com"

\* A parameter value holding another parameter's placeholder was replaced
\* in its turn.
C17_Witness ==
    /\ fn = "Build" /\ out # <<>>
    /\ arg.q.Filter = <<"(", "k=", "{", "a", "}", "{", "b", "}", ")">>
    /\ DOMAIN arg.params = {"a", "b"}
    /\ arg.params["a"] = <<"{", "b", "}">>
    /\ arg.params["b"] = <<"x">>
    /\ out.Filter = <<"(", "k=", "x", "x", ")">>

\* ------------------------------------------------------ claims on times
\* C18: for every FILETIME f >= 116444736000000000, ParseFileTimeToTime
\* succeeds and returns the UTC time (f - 116444736000000000) * 100 ns
\* after 1970-01-01; f = 0 yields an error; for every such f the time
\* rendered by AccountExpires is the same.
C18_FileTimeConverted ==
    (out # <<>> /\ arg.text = "digits") =>
        LET since == Minus(arg.n, FT(134774, 0, 0), 10000000)
            expected == DateTime(since.d, since.s)
        IN /\ (fn = "ParseFileTimeToTime" /\ arg.n.d >= 134774) =>
                 out.err = "nil" /\ out.time = expected
           /\ (fn = "ParseFileTimeToTime" /\ arg.n = FT(0, 0, 0)) =>
                 out.err # "nil"
           /\ (fn = "AccountExpires" /\ arg.n.d >= 134774) =>
                 out.time = ParseFileTimeToTime(arg).time

\* A FILETIME of the year 2024 is refused.
C18_Witness ==
    /\ fn = "ParseFileTimeToTime" /\ out # <<>>
    /\ arg.n = FT(154497, 43200, 0)
    /\ out.err = "invalid filetime value"

\* ----------------------------------------- claims on userAccountControl
\* C19 (as stated): ParseUserAccountControl("514") returns "514, Unknown"
\* and ParseUserAccountControl("532480") returns
\* "532480, Domain Controller".
C19_Uac514Unknown ==
    (fn \in {"ParseUserAccountControl", "ParseUserAccountControlOlder"}
        /\ out # <<>>) =>
        /\ arg = <<"5", "1", "4">> =>
              out = [n |-> <<"5", "1", "4">>, role |-> "Unknown",
                     err |-> "nil"]
        /\ arg = <<"5", "3", "2", "4", "8", "0">> =>
              out = [n |-> <<"5", "3", "2", "4", "8", "0">>,
                     role |-> "Domain Controller", err |-> "nil"]

\* C19 (amended): ParseUserAccountControl("514") returns
\* "514, Disabled User" (the older variant returns "514, Krbtgt"), and
\* ParseUserAccountControl("532480") returns "532480, Domain Controller".
C19_Uac514DisabledUser ==
    (fn \in {"ParseUserAccountControl", "ParseUserAccountControlOlder"}
        /\ out # <<>>) =>
        /\ arg = <<"5", "1", "4">> =>
              out = [n |-> <<"5", "1", "4">>,
                     role |-> IF fn = "ParseUserAccountControl"
                                  THEN "Disabled User" ELSE "Krbtgt",
                     err |-> "nil"]
        /\ arg = <<"5", "3", "2", "4", "8", "0">> =>
              out = [n |-> <<"5", "3", "2", "4", "8", "0">>,
                     role |-> "Domain Controller", err |-> "nil"]

C19_Witness ==
    /\ fn = "ParseUserAccountControl" /\ out # <<>>
    /\ arg = <<"5", "1", "4">>
    /\ out.role = "Disabled User"

C21_NilEntriesSkipped ==
    (fn \in {"textPrinter.StreamPrint", "JSONPrinter.StreamPrint",
             "CSVPrinter.StreamPrint", "bloodHoundPrinter.StreamPrint"}) =>
        /\ \A i \in DOMAIN out : arg[i].nil => ~out[i].emitted
        /\ (fn \in {"textPrinter.StreamPrint", "JSONPrinter.StreamPrint"}) =>
              \A i \in DOMAIN out : ~arg[i].nil => out[i].emitted
        /\ printed # <<>> =>
              /\ Len(out) = Len(arg)
              /\ printed.result = "nil"
              /\ fn # "CSVPrinter.StreamPrint" => printed.count = NonNil

\* The BloodHound printer received a nil entry and a real one, and ended
\* in a panic.
C21_Witness ==
    /\ fn = "bloodHoundPrinter.StreamPrint"
    /\ Len(arg) = 2 /\ arg[1].nil /\ ~arg[2].nil
    /\ printed # <<>>
    /\ printed.result = "panic"

\* ----------------------------------------------- claims on TLS negotiation
\* The error an attempt of the negotiation failed with.
AttemptError(a) == IF a.dial # "nil" THEN a.dial ELSE a.startTLS

\* C22: the negotiation tries TLS 1.3, 1.2, 1.1, 1.0 in this order, goes on
\* to the next version only after a failure that isTLSError classifies as a
\* TLS error, and makes no attempt after a success or after any other
\* failure, in the TLS and in the StartTLS modes alike.
C22_NextOnlyAfterTLSError ==
    fn = "dialWithTLSNegotiation" =>
        \A i \in DOMAIN out.tried :
            /\ out.tried[i].version = versionsToTry[i]
            /\ i < Len(out.tried) => isTLSError(AttemptError(out.tried[i]))

\* A StartTLS upgrade failed with a timeout and the next version was tried.
C22_Witness ==
    /\ fn = "dialWithTLSNegotiation"
    /\ arg.security = "SecurityStartTLS"
    /\ Len(out.tried) = 2
    /\ out.tried[1].dial = "nil"
    /\ out.tried[1].startTLS = "i/o timeout"

\* C26 (as claimed): every attempt of the negotiation, the last one (TLS 1.0)
\* included, uses a TLS config whose MinVersion and MaxVersion both equal
\* the candidate version, and the caller's base config is left as it was.
C26_MinMaxPinned ==
    fn = "dialWithTLSNegotiation" =>
        /\ arg.base = [min |-> 0, max |-> 0]
        /\ \A i \in DOMAIN out.tried :
               /\ out.tried[i].min = versionsToTry[i]
               /\ out.tried[i].max = versionsToTry[i]

\* C26 (amended): every attempt uses a config whose MinVersion equals the
\* candidate version; MaxVersion equals it too for TLS 1.3, 1.2 and 1.1,
\* while the last attempt (TLS 1.0) keeps the MaxVersion of the base config;
\* the caller's base config is left as it was.
C26_MinMaxPinnedButLast ==
    fn = "dialWithTLSNegotiation" =>
        /\ arg.base = [min |-> 0, max |-> 0]
        /\ \A i \in DOMAIN out.tried :
               /\ out.tried[i].min = versionsToTry[i]
               /\ out.tried[i].max = IF i < Len(versionsToTry)
                                     THEN versionsToTry[i] ELSE arg.base.max

\* All four candidates have been tried.
C26_Witness ==
    /\ fn = "dialWithTLSNegotiation"
    /\ Len(out.tried) = Len(versionsToTry)
    /\ out.tried[4].version = VersionTLS10

\* ------------------------------------------------- claims on paged search
\* C23: in a paged search every request after the first is sent only when
\* the response before it carried a paging control with a non-empty cookie,
\* and carries exactly that cookie (the one cookie of the paging control of
\* searchReq); after a response without paging control or with an empty
\* cookie no request follows.
C23_CookieCarried ==
    [][/\ (requests' # requests /\ requests # <<>>) =>
            /\ respCtrl /\ respCookie # 0
            /\ requests' = Append(requests,
                   executeSearchRequest(0, supportPaging, respCookie))
       /\ (fn = "PoolingClient.searchWithConn" /\ out' # out
             /\ out.requests # <<>>) =>
            LET last == out.responses[Len(out.responses)] IN
            /\ Len(out.responses) = Len(out.requests)
            /\ last.ctrl /\ last.cookie # 0
            /\ out'.requests = Append(out.requests,
                   searchWithConnRequest(arg.sizeLimit, last.cookie))]_vars

\* A second page has been asked for with the cookie of the first response.
C23_Witness ==
    /\ Len(requests) = 2
    /\ requests[2].cookie = PageSize
    /\ respCtrl /\ respCookie = 0
    /\ pc = "ret"

\* C24: when a paged ldapClient search ends by cancellation (seen before a
\* round-trip or during a push) or by a search error, exactly one abandon
\* request, carrying the paging control with an empty cookie, has been
\* issued before the error is placed on the error channel; a cancellation
\* during a push discards the entry in hand; the error placed is the
\* cancellation or search error, whatever the abandon request returned.
C24_AbandonBeforeError ==
    [][/\ (supportPaging /\ errSends' # errSends) =>
            /\ Len(abandons) = 1
            /\ cookie = 0
            /\ errChan' = Append(errChan, retErr)
            /\ \/ retErr = CtxErr
               \/ \E t \in SrvErrTexts \cup {"ldap: connection closed"} :
                      retErr = SearchFailed(t)
       /\ (supportPaging /\ pc \in {"check", "search", "push"} /\ pc' = "ret"
             /\ retErr' # NoErr) =>
            /\ abandons = <<>> /\ Len(abandons') = 1
            /\ cookie' = 0
       /\ (pc = "push" /\ pc' = "ret") =>
            /\ retErr' = CtxErr
            /\ placed' = placed /\ entriesChan' = entriesChan
       /\ abandons' # abandons => abandons = <<>>]_vars

\* A paged search was cancelled during a push, its abandon request failed,
\* and the cancellation error was placed on the error channel.
C24_Witness ==
    /\ supportPaging /\ handler = "stream"
    /\ abandons = <<"unwilling to perform">>
    /\ retErr = CtxErr
    /\ errSends = 1
    /\ placed < Len(returned)

\* --------------------------------------- claims on ResilientClient.Search
\* The attempts made so far that failed with a connection error.
ConnectionFailures ==
    {i \in DOMAIN attemptErrs : isConnectionError(attemptErrs[i])}

\* C25: every attempt that failed with a connection error and was followed
\* by a further try was followed by a reconnect attempt first, and once a
\* reconnect attempt has been made (it always fails) a call that is not
\* cancelled still makes all maxAttempts attempts.
C25_ReconnectThenAllAttempts ==
    rcMode = "search" =>
        /\ \A i \in ConnectionFailures : i < invoked => reconnects >= 1
        /\ (rcPc = "done" /\ reconnects >= 1 /\ ~ctxDone) =>
              invoked = maxAttempts

\* With MaxAttempts = 3 the first attempt failed with a connection reset, a
\* reconnect was attempted, and the call returned after the second attempt.
C25_Witness ==
    /\ rcMode = "search" /\ rcPc = "done" /\ ~ctxDone
    /\ maxAttempts = 3
    /\ reconnects = 1
    /\ invoked = 2
    /\ isConnectionError(attemptErrs[1])

\* ------------------------------------------- claims on the forwarding loop
\* The entries the wrapper has forwarded: read by the caller or still
\* buffered in the wrapper's entry channel.
Forwarded == callerReceived \o outChan

\* C27: when the attempt of the underlying client has ended without error
\* and the caller never cancelled, the wrapper's entry channel is closed only
\* after every entry that attempt emitted was forwarded, in order: the
\* forwarded entries end with the entries of that attempt.
C27_AllEntriesForwarded ==
    (/\ rcMode = "stream" /\ outClosed /\ ~ctxDone
     /\ pc = "done" /\ retErr = NoErr) =>
        /\ Len(Forwarded) >= Len(returned)
        /\ SubSeq(Forwarded, Len(Forwarded) - Len(returned) + 1,
                  Len(Forwarded)) = returned

\* The only attempt ended without error after emitting its entries, the
\* wrapper returned on the closed inner error channel, and the caller, who
\* never cancelled, found the stream closed with entries missing.
C27_Witness ==
    /\ rcMode = "stream" /\ ~ctxDone
    /\ invoked = 1 /\ pc = "done" /\ retErr = NoErr
    /\ callerPc = "done" /\ callerErr = NoErr
    /\ returned # <<>>
    /\ Len(callerReceived) < Len(returned)

\* C28: the wrapper's StreamSearch starts a further attempt only after the
\* current attempt ended with a retryable error; after an attempt that ended
\* without error, and without a cancellation, it makes no further attempt,
\* delivers no entry a second time, calls neither callback and puts no value
\* on its error channel.
C28_RetryOnlyAfterRetryable ==
    rcMode = "stream" =>
        /\ \A i \in DOMAIN attemptErrs :
               i < invoked => RetryableOutcome(attemptErrs[i])
        /\ \A i \in DOMAIN attemptErrs :
               (attemptErrs[i] = NoErr /\ ~ctxDone) =>
                   /\ invoked = i
                   /\ onRetryCalls = <<>> /\ onFailureCalls = <<>>
                   /\ outErrSent = <<>>
                   /\ \A j, k \in DOMAIN Forwarded :
                          Forwarded[j] = Forwarded[k] => j = k

\* The first attempt ended without error, the wrapper saw its entry channel
\* closed first, called onRetry and ran the search a second time: the caller
\* has the same entry twice.
C28_Witness ==
    /\ rcMode = "stream" /\ ~ctxDone
    /\ invoked = 2
    /\ attemptErrs # <<>> /\ attemptErrs[1] = NoErr
    /\ Len(onRetryCalls) = 1
    /\ Len(callerReceived) = 2
    /\ callerReceived[1] = callerReceived[2]

\* ------------------------------------------------- claims on termination
\* C29: once the caller has cancelled, the goroutine of
\* ResilientClient.StreamSearch and the worker of the ldapClient.StreamSearch
\* it started eventually end with both of their channels closed, whether or
\* not the caller reads again and however full the entry channels are.
C29_WorkersTerminate ==
    (rcMode = "stream" /\ ctxDone) ~>
        (/\ rcPc = "done" /\ outClosed /\ outErrClosed
         /\ invoked > 0 => (pc = "done" /\ entriesClosed /\ errClosed))

\* The caller cancelled while the wrapper's entry channel was full and an
\* entry was waiting to be forwarded, read nothing, and both workers ended
\* with their channels closed.
C29_Witness ==
    /\ rcMode = "stream" /\ ctxDone
    /\ callerPc = "range" /\ callerReceived = <<>>
    /\ Len(outChan) = ChanCap
    /\ rcPc = "done" /\ outClosed /\ outErrClosed
    /\ pc = "done" /\ entriesClosed /\ errClosed
    /\ placed > ChanCap

\* ----------------------------------------------------- claims on Count
\* No Get, Put or Close is in progress: every goroutine is outside the pool,
\* with or without a connection it was handed.
Quiescent == \A p \in Procs : ppc[p] \in {"idle", "holding"}

\* C30: in every quiescent state Count() is the number of idle connections
\* plus the number checked out and not yet returned, and once Close has
\* returned and every checked-out connection was handed back, Count() is 0
\* and every connection the pool created is closed.
C30_CountIsIdlePlusCheckedOut ==
    Quiescent =>
        /\ connCount = conns + CheckedOut
        /\ (closeReturned /\ CheckedOut = 0) => (connCount = 0 /\ open = 0)

\* The pool was closed while a connection was checked out; the connection
\* was handed back with Put and closed, and Count() still counts it.
C30_Witness ==
    /\ Quiescent
    /\ closeReturned
    /\ CheckedOut = 0
    /\ open = 0
    /\ panic = "none"
    /\ connCount > 0

====
